---- MODULE Spec2Model ----
(***************************************************************************)
(* KGym: membership lifecycle and check-in eligibility.                    *)
(*                                                                         *)
(* Text is a sequence of one-character strings, so that split('-') and the *)
(* template literal that builds a check-in code are computed as the code   *)
(* computes them.  A date (a DATE column, "YYYY-MM-DD") is a day number;   *)
(* an instant (new Date()) is a number of ticks, TicksPerDay ticks a day,  *)
(* and new Date("YYYY-MM-DD") is the tick of that day's UTC midnight.      *)
(***************************************************************************)
EXTENDS Integers, Sequences, FiniteSets, TLC

VARIABLES
  now,            \* the wall clock, in ticks (new Date())
  profiles,       \* table profiles: set of [id, role]
  plans,          \* table plans: set of plan ids present
  student_plans,  \* table student_plans: rows in order of creation
  check_ins,      \* table check_ins: rows in order of insertion
  pendingInsert,  \* check_ins inserts in flight, per client screen
  gate,           \* the admin CheckIn screen (CheckIn.processCheckIn)
  stu,            \* the student's StudentCheckIn screen
  del,            \* DeletePlanDialog
  form,           \* ManageStudentPlanDialog's date inputs
  view,           \* the status badges last rendered for a student
  fk,             \* the schema in force declares the foreign keys
  users,          \* the authentication provider's accounts
  ui              \* the other components: camera, login and student dialogs

vars == <<now, profiles, plans, student_plans, check_ins, pendingInsert,
          gate, stu, del, form, view, fk, users, ui>>

Null == [null |-> TRUE]

\* The components other than the check-in screens and the plan dialogs,
\* each with its loading flag and the last toast it raised.
UiIdle ==
  [add   |-> [pc |-> "idle", loading |-> FALSE, toast |-> "none",
              cpf |-> <<>>, password |-> <<>>, user |-> Null],
   login |-> [pc |-> "idle", loading |-> FALSE, toast |-> "none",
              form |-> "none", typed |-> <<>>, cpf |-> <<>>,
              password |-> <<>>, user |-> Null, profile |-> Null,
              email |-> "none"],
   delS  |-> [pc |-> "idle", loading |-> FALSE, toast |-> "none",
              student |-> Null],
   hist  |-> [selected |-> Null, toast |-> "none"],
   cam   |-> [status |-> "waiting", isScanning |-> FALSE, timer |-> <<>>,
              recognized |-> <<>>, toast |-> "none"],
   mp    |-> [loading |-> FALSE, toast |-> "none", req |-> Null],
   page  |-> "none",
   dlg   |-> [a \in {"admin1", "admin2"} |-> Null],
   ctx   |-> [user |-> Null, profile |-> Null, loading |-> TRUE,
              session |-> Null],
   ws    |-> [workoutSheet |-> Null, readOnly |-> FALSE, name |-> <<>>,
              exercises |-> <<>>, loading |-> FALSE, toast |-> "none",
              pc |-> "idle", op |-> "none", toSave |-> <<>>,
              before |-> <<>>, deleteFailed |-> FALSE,
              sheets |-> <<>>, stored |-> <<>>],
   pw    |-> [pc |-> "idle", loading |-> FALSE, toast |-> "none",
              data |-> Null, verified |-> FALSE, sent |-> FALSE]]

----------------------------------------------------------------------------
(* Bounds of the model *)

TicksPerDay == 2
MaxTime == 3
MaxPlanRows == 2
MaxCheckIns == 1
MinCpfLen == 5
MaxCpfLen == 7
MaxExercises == 2
MaxStored == 1

(* Program constants *)

ExpiringDays == 7
PasswordLen == 6
PasswordMinLen == 6

----------------------------------------------------------------------------
(* Text *)

Dash == "-"

RECURSIVE Rep(_, _)
Rep(c, n) == IF n = 0 THEN <<>> ELSE <<c>> \o Rep(c, n - 1)

\* String.prototype.split('-'): the pieces between separators, one more
\* piece than there are separators; the empty text splits into one empty
\* piece.
Split(s) ==
  LET seps == {i \in 1..Len(s) : s[i] = Dash}
      n == Cardinality(seps)
      cut(k) == IF k = 0 THEN 0
                ELSE IF k = n + 1 THEN Len(s) + 1
                ELSE CHOOSE i \in seps :
                       Cardinality({j \in seps : j < i}) = k - 1
  IN [k \in 1..(n + 1) |-> SubSeq(s, cut(k - 1) + 1, cut(k) - 1)]

KGYM == <<"K", "G", "Y", "M">>
CHECKIN == <<"C", "H", "E", "C", "K", "I", "N">>

\* uuid::TEXT of a value of gen_random_uuid(): 8-4-4-4-12 hexadecimal digits.
UuidText(h) ==
  Rep(h, 8) \o <<Dash>> \o Rep(h, 4) \o <<Dash>> \o Rep(h, 4) \o <<Dash>>
    \o Rep(h, 4) \o <<Dash>> \o Rep(h, 12)

StudentA == UuidText("a")
AdminC == UuidText("c")

\* `KGYM-CHECKIN-${studentId}`
generateStudentQR(studentId) ==
  KGYM \o <<Dash>> \o CHECKIN \o <<Dash>> \o studentId

\* The parser without its test of the middle segment.
ParseOkNoMiddle(qrCode) ==
  LET parts == Split(qrCode) IN
  ~(Len(parts) # 3 \/ parts[1] # KGYM)

\* const parts = qrCode.split('-'); the guard of the parser.
ParseOk(qrCode) ==
  LET parts == Split(qrCode) IN
  ~(Len(parts) # 3 \/ parts[1] # KGYM \/ parts[2] # CHECKIN)

\* const studentId = parts[2];
ParsedStudentId(qrCode) == Split(qrCode)[3]

----------------------------------------------------------------------------
(* Dates and instants *)

\* new Date("YYYY-MM-DD").getTime(): the date's UTC midnight.
DateInstant(date) == date * TicksPerDay

\* Math.ceil(a / b) for b > 0
Ceil(a, b) == -((-a) \div b)

\* The same difference rounded down (Math.floor).
daysUntilExpiryFloor(end_date, today) ==
  (DateInstant(end_date) - today) \div TicksPerDay

\* Math.ceil((endDate.getTime() - today.getTime()) / (1000 * 60 * 60 * 24))
daysUntilExpiry(end_date, today) ==
  Ceil(DateInstant(end_date) - today, TicksPerDay)

\* endDate < today, with endDate = new Date(end_date), today = new Date()
PlanExpired(end_date, today) == DateInstant(end_date) < today

----------------------------------------------------------------------------
(* The store *)

Clients == {"gate", "stu"}
PlanIds == {"p1", "p2"}
Statuses == {"active", "inactive", "expired"}

RowsOf(studentId) ==
  SelectSeq(student_plans, LAMBDA r : r.student_id = studentId)

Range(seq) == {seq[i] : i \in 1..Len(seq)}

\* A find that forgets the status test.
FindAny(rows) == Range(rows)

\* student_plans.find(sp => sp.status === 'active'): the embedded rows come
\* back in no stated order, so any active row may be the first one found.
FindActive(rows) == {r \in Range(rows) : r.status = "active"}

\* .eq('id', studentId).eq('role', 'student').single()
SelectStudent(studentId) ==
  {p \in profiles : p.id = studentId /\ p.role = "student"}

NextRowId ==
  IF student_plans = <<>> THEN 1
  ELSE 1 + (CHOOSE m \in {r.id : r \in Range(student_plans)} :
              \A r \in Range(student_plans) : r.id <= m)

\* The rows of student_plans after the request of onSubmit: the update of
\* the row of currentPlan, or the insert of a new row, or nothing on an error.
SubmittedRows(student, currentPlan, data, ok) ==
  IF ~ok THEN student_plans
  ELSE IF currentPlan # Null
    THEN [i \in 1..Len(student_plans) |->
            IF student_plans[i].id = currentPlan.id
              THEN [student_plans[i] EXCEPT
                      !.plan_id = data.plan_id,
                      !.start_date = data.start_date,
                      !.end_date = data.end_date,
                      !.status = data.status]
              ELSE student_plans[i]]
    ELSE Append(student_plans,
                [id |-> NextRowId, student_id |-> student,
                 plan_id |-> data.plan_id, start_date |-> data.start_date,
                 end_date |-> data.end_date, status |-> data.status])

\* ManageStudentPlanDialog.onSubmit: one update or one insert request.
onSubmit(student, currentPlan, data, ok) ==
  /\ student_plans' = SubmittedRows(student, currentPlan, data, ok)
  /\ UNCHANGED <<now, profiles, plans, check_ins, pendingInsert, gate, stu,
                 del, form, view,
                 fk, users, ui>>

\* A clock with a nightly job that marks the rows past their end date.
TickExpiring ==
  /\ now < MaxTime
  /\ now' = now + 1
  /\ student_plans' =
       [i \in 1..Len(student_plans) |->
          IF /\ student_plans[i].status = "active"
             /\ PlanExpired(student_plans[i].end_date, now + 1)
            THEN [student_plans[i] EXCEPT !.status = "expired"]
            ELSE student_plans[i]]
  /\ UNCHANGED <<profiles, plans, check_ins, pendingInsert, gate, stu, del,
                 form, view,
                 fk, users, ui>>

\* The clock advances.
Tick ==
  /\ now < MaxTime
  /\ now' = now + 1
  /\ UNCHANGED <<profiles, plans, student_plans, check_ins, pendingInsert,
                 gate, stu, del, form, view,
                 fk, users, ui>>

----------------------------------------------------------------------------
(* The admin check-in screen: CheckIn.processCheckIn *)

\* The profile each screen is signed in as (useAuth().profile.id).
SignedIn(c) == IF c = "gate" THEN AdminC ELSE StudentA

GateIdle ==
  [pc |-> "idle", loading |-> FALSE, code |-> <<>>, studentId |-> <<>>,
   result |-> "none", lookups |-> 0, inserts |-> 0, t0 |-> 0,
   standing |-> "none", stamped |-> FALSE]

\* The standing, when the call is made, of the student whose profile id the
\* code was generated for: "ok" (an active row whose end date has not
\* passed), "expired" (active rows, all past their end date), "noplan" (no
\* active row), or "none" (the code was generated for no student).
EndDateNotPassed(end_date, today) == end_date >= today \div TicksPerDay

Standing(qrCode) ==
  IF \A p \in profiles :
       p.role # "student" \/ qrCode # generateStudentQR(p.id)
    THEN "none"
  ELSE LET p == CHOOSE q \in profiles :
                  q.role = "student" /\ qrCode = generateStudentQR(q.id)
           actives == FindActive(RowsOf(p.id))
       IN IF actives = {} THEN "noplan"
          ELSE IF \E r \in actives : EndDateNotPassed(r.end_date, now)
            THEN "ok"
          ELSE "expired"

\* setLoading(true); split and test the code; on a bad code throw at once
\* (catch: toast; finally: setLoading(false)), else send the profiles select.
processCheckIn(qrCode) ==
  IF ~ParseOk(qrCode)
    THEN [GateIdle EXCEPT !.code = qrCode, !.result = "invalid",
                          !.standing = Standing(qrCode)]
    ELSE [GateIdle EXCEPT !.pc = "lookup", !.loading = TRUE,
                          !.code = qrCode,
                          !.studentId = ParsedStudentId(qrCode),
                          !.t0 = now, !.standing = Standing(qrCode)]

\* handleSubmit of the QR tab: processCheckIn(qrInput.trim())
GateStart(qrCode) ==
  /\ gate.pc = "idle"
  /\ gate' = processCheckIn(qrCode)
  /\ UNCHANGED <<now, profiles, plans, student_plans, check_ins,
                 pendingInsert, stu, del, form, view,
                 fk, users, ui>>

GateFinish(result) ==
  [gate EXCEPT !.pc = "idle", !.loading = FALSE, !.result = result,
               !.lookups = 1, !.t0 = 0]

\* The select answers: student found?, active row?, end date passed?, then
\* the insert request is sent, stamped new Date().toISOString().
GateLookup(ok) ==
  /\ gate.pc = "lookup"
  /\ LET student == IF ok THEN SelectStudent(gate.studentId) ELSE {}
         actives == FindActive(RowsOf(gate.studentId))
     IN
     \E activePlan \in (IF actives = {} THEN {Null} ELSE actives) :
       IF student = {}
         THEN gate' = GateFinish("notfound") /\ UNCHANGED pendingInsert
       ELSE IF activePlan = Null
         THEN gate' = GateFinish("noplan") /\ UNCHANGED pendingInsert
       ELSE IF PlanExpired(activePlan.end_date, now)
         THEN gate' = GateFinish("expired") /\ UNCHANGED pendingInsert
       ELSE /\ gate' = [gate EXCEPT !.pc = "insert", !.lookups = 1,
                                     !.inserts = 1]
            /\ pendingInsert' =
                 [pendingInsert EXCEPT !["gate"] =
                    [student_id |-> gate.studentId, check_in_time |-> now]]
  /\ UNCHANGED <<now, profiles, plans, student_plans, check_ins, stu, del,
                 form, view,
                 fk, users, ui>>

----------------------------------------------------------------------------
(* The student's own check-in screen: StudentCheckIn *)

StuInit ==
  [plan |-> Null, canCheckIn |-> FALSE, loading |-> FALSE,
   result |-> "none"]

\* getPlanStatus of StudentCheckIn
CheckIn_getPlanStatus(studentPlan, today) ==
  IF studentPlan = Null THEN "inactive"
  ELSE IF daysUntilExpiry(studentPlan.end_date, today) <= 0 THEN "expired"
  ELSE IF daysUntilExpiry(studentPlan.end_date, today) <= ExpiringDays
    THEN "expiring"
  ELSE "active"

\* .eq('student_id', profile.id).eq('status', 'active').single(): the row
\* when exactly one matches, otherwise an error and no data.
SingleActive(studentId) ==
  LET actives == FindActive(RowsOf(studentId)) IN
  IF Cardinality(actives) = 1 THEN CHOOSE r \in actives : TRUE ELSE Null

\* const canCheckIn = planStatus.status === 'active', as of a render
canCheckIn(studentPlan, today) ==
  CheckIn_getPlanStatus(studentPlan, today) = "active"

\* The screen mounts: fetchStudentPlan, then a render.
StuMount(ok) ==
  /\ ~stu.loading
  /\ LET data == IF ok THEN SingleActive(StudentA) ELSE Null IN
     stu' = [StuInit EXCEPT !.plan = data,
                            !.canCheckIn = canCheckIn(data, now)]
  /\ UNCHANGED <<now, profiles, plans, student_plans, check_ins,
                 pendingInsert, gate, del, form, view,
                 fk, users, ui>>

\* The "Fazer Check-in" button (disabled={!canCheckIn || loading}) runs
\* StudentCheckIn.processCheckIn up to its insert request.
StuCheckIn ==
  /\ stu.canCheckIn /\ ~stu.loading
  /\ stu.plan # Null
  /\ IF PlanExpired(stu.plan.end_date, now)
       THEN /\ stu' = [stu EXCEPT !.result = "expired",
                                  !.canCheckIn = canCheckIn(stu.plan, now)]
            /\ UNCHANGED pendingInsert
     ELSE IF stu.plan.status # "active"
       THEN /\ stu' = [stu EXCEPT !.result = "notactive",
                                  !.canCheckIn = canCheckIn(stu.plan, now)]
            /\ UNCHANGED pendingInsert
     ELSE /\ stu' = [stu EXCEPT !.loading = TRUE,
                                !.result = "none",
                                !.canCheckIn = canCheckIn(stu.plan, now)]
          /\ pendingInsert' =
               [pendingInsert EXCEPT !["stu"] =
                  [student_id |-> StudentA, check_in_time |-> now]]
  /\ UNCHANGED <<now, profiles, plans, student_plans, check_ins, gate, del,
                 form, view,
                 fk, users, ui>>

----------------------------------------------------------------------------
(* The store answers an insert into check_ins *)

\* Row-level policy "Students can create their own check-ins", the only
\* INSERT policy of check_ins: student_id is the id of the profile of the
\* signed-in user.
InsertAllowed(c, row) ==
  \E q \in profiles : q.id = SignedIn(c) /\ row.student_id = q.id

\* if (checkInError) throw checkInError; else the success toast; finally
\* setLoading(false).
InsertCheckIn(c, ok) ==
  /\ pendingInsert[c] # Null
  /\ Len(check_ins) < MaxCheckIns
  /\ LET done == ok /\ InsertAllowed(c, pendingInsert[c]) IN
     /\ check_ins' = IF done THEN Append(check_ins, pendingInsert[c])
                             ELSE check_ins
     /\ pendingInsert' = [pendingInsert EXCEPT ![c] = Null]
     /\ IF c = "gate"
          THEN /\ gate' = [gate EXCEPT !.pc = "idle", !.loading = FALSE,
                              !.result = IF done THEN "ok" ELSE "error",
                              !.stamped = done /\ pendingInsert[c].check_in_time >= gate.t0,
                              !.t0 = 0]
               /\ UNCHANGED stu
          ELSE /\ stu' = [stu EXCEPT !.loading = FALSE,
                              !.result = IF done THEN "ok" ELSE "error",
                              !.canCheckIn = canCheckIn(stu.plan, now)]
               /\ UNCHANGED gate
  /\ UNCHANGED <<now, profiles, plans, student_plans, del, form, view,
                 fk, users, ui>>

----------------------------------------------------------------------------
(* Specification of the check-in screens *)

GateEndDates == {0, 9}

GateFormData ==
  [plan_id : {"p1"}, start_date : {0}, end_date : GateEndDates,
   status : {"active", "inactive"}]

\* The codes typed or scanned at the gate.
GateCodes ==
  {generateStudentQR(StudentA), generateStudentQR(AdminC),
   generateStudentQR(<<"a", "b", "c">>),
   KGYM \o <<Dash>> \o CHECKIN,
   <<"X">> \o <<Dash>> \o CHECKIN \o <<Dash>> \o <<"a">>,
   KGYM \o <<Dash>> \o <<"O", "U", "T">> \o <<Dash>> \o <<"a">>}

Init ==
  /\ now = 0
  /\ profiles = {[id |-> StudentA, role |-> "student"],
                 [id |-> AdminC, role |-> "admin"]}
  /\ plans = PlanIds
  /\ student_plans = <<>>
  /\ check_ins = <<>>
  /\ pendingInsert = [c \in Clients |-> Null]
  /\ gate = GateIdle
  /\ stu = StuInit
  /\ del = Null
  /\ form = Null
  /\ view = Null
  /\ fk = FALSE
  /\ users = {}
  /\ ui = UiIdle

AssignPlan ==
  /\ Len(student_plans) < MaxPlanRows
  /\ \E data \in GateFormData, ok \in BOOLEAN :
       onSubmit(StudentA, Null, data, ok)

EditPlan ==
  \E i \in 1..Len(student_plans), data \in GateFormData, ok \in BOOLEAN :
    onSubmit(student_plans[i].student_id, student_plans[i], data, ok)

Next ==
  \/ Tick
  \/ AssignPlan
  \/ EditPlan
  \/ \E qrCode \in GateCodes : GateStart(qrCode)
  \/ \E ok \in BOOLEAN : GateLookup(ok)
  \/ \E ok \in BOOLEAN : StuMount(ok)
  \/ StuCheckIn
  \/ \E c \in Clients, ok \in BOOLEAN : InsertCheckIn(c, ok)

Spec == Init /\ [][Next]_vars

----------------------------------------------------------------------------
(* The status badges of the four screens *)

\* The three-way test on daysUntilExpiry that every resolver ends with.
StatusByDate(end_date, today) ==
  IF daysUntilExpiry(end_date, today) <= 0 THEN "expired"
  ELSE IF daysUntilExpiry(end_date, today) <= ExpiringDays THEN "expiring"
  ELSE "active"

\* Students.getStudentStatus; activePlan is what find() returned, or Null.
Students_getStudentStatus(rows, activePlan, today) ==
  IF Len(rows) = 0 THEN "inactive"
  ELSE IF activePlan # Null THEN StatusByDate(activePlan.end_date, today)
  ELSE "inactive"

\* StudentDashboard.getPlanStatus
Dashboard_getPlanStatus(plan, today) ==
  IF plan = Null THEN "inactive" ELSE StatusByDate(plan.end_date, today)

\* StudentPlan.getPlanStatus
Plan_getPlanStatus(plan, today) ==
  IF plan = Null THEN "inactive"
  ELSE IF plan.status = "inactive" THEN "inactive"
  ELSE IF plan.status = "expired" THEN "expired"
  ELSE StatusByDate(plan.end_date, today)

\* A fetch that takes the oldest row.
OldestRow(studentId) ==
  LET rows == RowsOf(studentId) IN
  IF rows = <<>> THEN Null ELSE rows[1]

\* StudentPlan.fetchStudentPlan: .order('created_at', {ascending: false}),
\* then data?.[0] || null: the most recently created row, active or not.
MostRecent(studentId) ==
  LET rows == RowsOf(studentId) IN
  IF rows = <<>> THEN Null ELSE rows[Len(rows)]

StudentB == UuidText("b")
StatusStudents == {StudentA, StudentB}

\* The admin's Students list renders the badge of one student.
RenderStudents(s) ==
  /\ LET actives == FindActive(RowsOf(s)) IN
     \E activePlan \in (IF actives = {} THEN {Null} ELSE actives) :
       view' = [screen |-> "students", student |-> s, row |-> activePlan,
                status |-> Students_getStudentStatus(RowsOf(s), activePlan,
                                                     now)]
  /\ UNCHANGED <<now, profiles, plans, student_plans, check_ins,
                 pendingInsert, gate, stu, del, form,
                 fk, users, ui>>

\* StudentDashboard: fetchStudentData, then the badge.
RenderDashboard(s) ==
  /\ view' = [screen |-> "dashboard", student |-> s,
              row |-> SingleActive(s),
              status |-> Dashboard_getPlanStatus(SingleActive(s), now)]
  /\ UNCHANGED <<now, profiles, plans, student_plans, check_ins,
                 pendingInsert, gate, stu, del, form,
                 fk, users, ui>>

\* StudentCheckIn: fetchStudentPlan, then the badge.
RenderCheckIn(s) ==
  /\ view' = [screen |-> "checkin", student |-> s,
              row |-> SingleActive(s),
              status |-> CheckIn_getPlanStatus(SingleActive(s), now)]
  /\ UNCHANGED <<now, profiles, plans, student_plans, check_ins,
                 pendingInsert, gate, stu, del, form,
                 fk, users, ui>>

\* StudentPlan: fetchStudentPlan, then the badge.
RenderPlan(s) ==
  /\ view' = [screen |-> "plan", student |-> s, row |-> MostRecent(s),
              status |-> Plan_getPlanStatus(MostRecent(s), now)]
  /\ UNCHANGED <<now, profiles, plans, student_plans, check_ins,
                 pendingInsert, gate, stu, del, form,
                 fk, users, ui>>

StatusEndDates == {0, 1, 8}

StatusRowData ==
  [student_id : StatusStudents, plan_id : {"p1"}, start_date : {0},
   end_date : StatusEndDates, status : Statuses]

\* The stores that plan assignments and edits lead to.
StatusStores ==
  UNION {{[i \in 1..n |->
             [id |-> i, student_id |-> f[i].student_id,
              plan_id |-> f[i].plan_id, start_date |-> f[i].start_date,
              end_date |-> f[i].end_date, status |-> f[i].status]] :
           f \in [1..n -> StatusRowData]} : n \in 0..MaxPlanRows}

InitStatus ==
  /\ now \in 0..MaxTime
  /\ profiles = {[id |-> StudentA, role |-> "student"],
                 [id |-> StudentB, role |-> "student"],
                 [id |-> AdminC, role |-> "admin"]}
  /\ plans = PlanIds
  /\ student_plans \in StatusStores
  /\ check_ins = <<>>
  /\ pendingInsert = [c \in Clients |-> Null]
  /\ gate = GateIdle
  /\ stu = StuInit
  /\ del = Null
  /\ form = Null
  /\ view = Null
  /\ fk = FALSE
  /\ users = {}
  /\ ui = UiIdle

NextStatus ==
  \/ \E s \in StatusStudents : RenderStudents(s)
  \/ \E s \in StatusStudents : RenderDashboard(s)
  \/ \E s \in StatusStudents : RenderCheckIn(s)
  \/ \E s \in StatusStudents : RenderPlan(s)

SpecStatus == InitStatus /\ [][NextStatus]_vars

----------------------------------------------------------------------------
(* ManageStudentPlanDialog: the end date computed from plan and start date *)

\* A calendar date "YYYY-MM-DD" as [y, m, d], m in 1..12.
IsLeap(y) == (y % 4 = 0 /\ y % 100 # 0) \/ y % 400 = 0

DaysInMonth(y, m) ==
  IF m = 2 THEN (IF IsLeap(y) THEN 29 ELSE 28)
  ELSE IF m \in {4, 6, 9, 11} THEN 30
  ELSE 31

PrevDay(date) ==
  IF date.d > 1 THEN [date EXCEPT !.d = date.d - 1]
  ELSE IF date.m > 1
    THEN [y |-> date.y, m |-> date.m - 1,
          d |-> DaysInMonth(date.y, date.m - 1)]
  ELSE [y |-> date.y - 1, m |-> 12, d |-> 31]

NextDay(date) ==
  IF date.d < DaysInMonth(date.y, date.m) THEN [date EXCEPT !.d = date.d + 1]
  ELSE IF date.m < 12 THEN [y |-> date.y, m |-> date.m + 1, d |-> 1]
  ELSE [y |-> date.y + 1, m |-> 1, d |-> 1]

\* Date.prototype.setMonth(getMonth() + months) on the local fields: the
\* month index is normalised into the year, the day of the month is kept,
\* and a day past the end of the target month runs on into the next month.
SetMonth(date, months) ==
  LET m0 == date.m - 1 + months
      y1 == date.y + (m0 \div 12)
      m1 == (m0 % 12) + 1
      over == date.d - DaysInMonth(y1, m1)
  IN IF over <= 0 THEN [y |-> y1, m |-> m1, d |-> date.d]
     ELSE IF m1 < 12 THEN [y |-> y1, m |-> m1 + 1, d |-> over]
     ELSE [y |-> y1 + 1, m |-> 1, d |-> over]

\* calculateEndDate: new Date(startDate) is the start's UTC midnight;
\* getMonth/setMonth read and write it in the browser's local time, tz
\* hours from UTC (west of UTC that midnight is still the previous local
\* day); toISOString().split('T')[0] is the UTC date of the result.
calculateEndDate(startDate, durationMonths, tz) ==
  IF tz < 0
    THEN NextDay(SetMonth(PrevDay(startDate), durationMonths))
    ELSE SetMonth(startDate, durationMonths)

\* handlePlanChange, had it counted the months from the end date the field
\* holds.
handlePlanChangeFromEnd(months) ==
  /\ form' = IF form.start_date # Null
               THEN [form EXCEPT !.months = months,
                       !.end_date =
                          calculateEndDate(IF form.end_date # Null
                                             THEN form.end_date
                                             ELSE form.start_date,
                                           months, form.tz)]
               ELSE [form EXCEPT !.months = months]
  /\ UNCHANGED <<now, profiles, plans, student_plans, check_ins,
                 pendingInsert, gate, stu, del, view,
                 fk, users, ui>>

\* Select onValueChange: form.setValue("plan_id", value); handlePlanChange.
handlePlanChange(months) ==
  /\ form' = IF form.start_date # Null
               THEN [form EXCEPT !.months = months,
                       !.end_date = calculateEndDate(form.start_date, months,
                                                     form.tz)]
               ELSE [form EXCEPT !.months = months]
  /\ UNCHANGED <<now, profiles, plans, student_plans, check_ins,
                 pendingInsert, gate, stu, del, view,
                 fk, users, ui>>

\* The start date input changes: handleStartDateChange.
handleStartDateChange(startDate) ==
  /\ form' = IF form.months # 0
               THEN [form EXCEPT !.start_date = startDate,
                       !.end_date = calculateEndDate(startDate, form.months,
                                                     form.tz)]
               ELSE [form EXCEPT !.start_date = startDate]
  /\ UNCHANGED <<now, profiles, plans, student_plans, check_ins,
                 pendingInsert, gate, stu, del, view,
                 fk, users, ui>>

\* Browser time zones, in hours from UTC: America/Sao_Paulo and UTC.
TzOffsets == {-3, 0}
FormYears == {2023, 2024}
FormDays == {1, 15, 28, 29, 30, 31}
FormStartDates ==
  {date \in [y : FormYears, m : 1..12, d : FormDays] :
     date.d <= DaysInMonth(date.y, date.m)}
\* plans.duration_months of the plans on offer
FormDurations == {1, 3, 12}

InitDate ==
  /\ now = 0
  /\ profiles = {[id |-> StudentA, role |-> "student"],
                 [id |-> AdminC, role |-> "admin"]}
  /\ plans = PlanIds
  /\ student_plans = <<>>
  /\ check_ins = <<>>
  /\ pendingInsert = [c \in Clients |-> Null]
  /\ gate = GateIdle
  /\ stu = StuInit
  /\ del = Null
  /\ form \in [tz : TzOffsets, start_date : FormStartDates, months : {0},
                end_date : {Null}]
  /\ view = Null
  /\ fk = FALSE
  /\ users = {}
  /\ ui = UiIdle

NextDate ==
  \/ \E months \in FormDurations : handlePlanChange(months)
  \/ \E startDate \in FormStartDates : handleStartDateChange(startDate)

SpecDate == InitDate /\ [][NextDate]_vars

----------------------------------------------------------------------------
(* DeletePlanDialog: deleting a plan *)

DelIdle ==
  [pc |-> "idle", plan |-> Null, loading |-> FALSE, toast |-> "none",
   sent |-> FALSE]

\* A check that forgets the status filter.
AnyStudentPlans(planId) ==
  {i \in DOMAIN student_plans : student_plans[i].plan_id = planId}

\* from('student_plans').select('id').eq('plan_id', plan.id)
\*   .eq('status', 'active')
ActiveStudentPlans(planId) ==
  {i \in DOMAIN student_plans :
     /\ student_plans[i].plan_id = planId
     /\ student_plans[i].status = "active"}

\* handleDelete up to its first await: the early return on a missing plan,
\* setLoading(true), and the select request sent.  The confirm button is
\* disabled while loading.
handleDelete(plan) ==
  /\ del.pc = "idle"
  /\ ~del.loading
  /\ del' = IF plan = Null THEN del
            ELSE [pc |-> "check", plan |-> plan, loading |-> TRUE,
                  toast |-> "none", sent |-> FALSE]
  /\ UNCHANGED <<now, profiles, plans, student_plans, check_ins,
                 pendingInsert, gate, stu, form, view,
                 fk, users, ui>>

\* The select answers: an error is thrown to the catch; active rows raise
\* the toast and return; otherwise the delete request is sent.  The finally
\* block resets loading on every return.
DeleteCheck(ok) ==
  /\ del.pc = "check"
  /\ del' = IF ~ok
              THEN [del EXCEPT !.pc = "idle", !.loading = FALSE,
                               !.toast = "error"]
            ELSE IF Cardinality(ActiveStudentPlans(del.plan.id)) > 0
              THEN [del EXCEPT !.pc = "idle", !.loading = FALSE,
                               !.toast = "blocked"]
            ELSE [del EXCEPT !.pc = "delete", !.sent = TRUE]
  /\ UNCHANGED <<now, profiles, plans, student_plans, check_ins,
                 pendingInsert, gate, stu, form, view,
                 fk, users, ui>>

\* from('plans').delete().eq('id', plan.id) is carried out, or refused, by
\* the store and its answer handled.  Where student_plans.plan_id REFERENCES
\* plans(id) ON DELETE CASCADE is declared, the rows of the plan go with it.
DeletePlan(ok) ==
  /\ del.pc = "delete"
  /\ IF ok
       THEN /\ plans' = plans \ {del.plan.id}
            /\ student_plans' =
                 IF fk THEN SelectSeq(student_plans,
                                      LAMBDA r : r.plan_id # del.plan.id)
                 ELSE student_plans
            /\ del' = [del EXCEPT !.pc = "idle", !.loading = FALSE,
                                  !.toast = "deleted"]
       ELSE /\ UNCHANGED <<plans, student_plans>>
            /\ del' = [del EXCEPT !.pc = "idle", !.loading = FALSE,
                                  !.toast = "error"]
  /\ UNCHANGED <<now, profiles, check_ins, pendingInsert, gate, stu, form,
                 view,
                 fk, users, ui>>

PlansFormData ==
  [plan_id : PlanIds, start_date : {0}, end_date : {9}, status : Statuses]

\* plan_id REFERENCES plans(id): where the key is declared, the store
\* refuses a row whose plan is gone.
PlanExists(plan_id) == fk => plan_id \in plans

InitPlans ==
  /\ now = 0
  /\ profiles = {[id |-> StudentA, role |-> "student"],
                 [id |-> AdminC, role |-> "admin"]}
  /\ plans = PlanIds
  /\ student_plans = <<>>
  /\ check_ins = <<>>
  /\ pendingInsert = [c \in Clients |-> Null]
  /\ gate = GateIdle
  /\ stu = StuInit
  /\ del = DelIdle
  /\ form = Null
  /\ view = Null
  /\ fk \in BOOLEAN
  /\ users = {}
  /\ ui = UiIdle

\* Another admin tab assigns a plan to the student.
PlansAssign ==
  /\ Len(student_plans) < MaxPlanRows
  /\ \E data \in PlansFormData, ok \in BOOLEAN :
       onSubmit(StudentA, Null, data, ok /\ PlanExists(data.plan_id))

\* Another admin tab edits one of the student's plan rows.
PlansEdit ==
  \E i \in 1..Len(student_plans), data \in PlansFormData, ok \in BOOLEAN :
    onSubmit(student_plans[i].student_id, student_plans[i], data,
             ok /\ PlanExists(data.plan_id))

NextPlans ==
  \/ PlansAssign
  \/ PlansEdit
  \/ \E plan \in {[id |-> p] : p \in plans} \cup {Null} : handleDelete(plan)
  \/ \E ok \in BOOLEAN : DeleteCheck(ok)
  \/ \E ok \in BOOLEAN : DeletePlan(ok)

SpecPlans == InitPlans /\ [][NextPlans]_vars

----------------------------------------------------------------------------
(* Student accounts: AddStudentDialog and the student login forms *)

Digits == {"0", "1", "2", "3", "4", "5", "6", "7", "8", "9"}

\* String.prototype.replace(/\D/g, '')
StripNonDigits(s) == SelectSeq(s, LAMBDA c : c \in Digits)

\* String.prototype.slice(0, n)
SliceFrom0(s, n) == IF Len(s) <= n THEN s ELSE SubSeq(s, 1, n)

\* z.string().min(6): at least six characters, of any kind
SchemaAcceptsCpf(cpf) == Len(cpf) >= PasswordLen

DefaultPassword == <<"1", "2", "3", "4", "5", "6">>

\* AddStudentDialog.onSubmit:
\*   cpfDigits = data.cpf?.replace(/\D/g, '').slice(0, 6) || '123456'
\*   password  = cpfDigits.length >= 6 ? cpfDigits : '123456'
AddStudent_password(cpf) ==
  LET sliced == SliceFrom0(StripNonDigits(cpf), PasswordLen)
      cpfDigits == IF sliced = <<>> THEN DefaultPassword ELSE sliced
  IN IF Len(cpfDigits) >= PasswordLen THEN cpfDigits ELSE DefaultPassword

\* <Input id="cpf" maxLength={6}>: the field keeps the first six characters
\* of what is typed into it.
MaxLengthInput(typed) == SliceFrom0(typed, PasswordLen)

\* StudentLoginForm.onSubmit: password: data.cpf.replace(/\D/g, '')
StudentLoginForm_password(cpf) == StripNonDigits(cpf)

\* Login.onStudentLogin: password: data.cpf.replace(/\D/g, '')
Login_password(cpf) == StripNonDigits(cpf)

LoginForms == {"StudentLoginForm", "Login"}

\* The account and the profile that AddStudentDialog creates.
NewUserId == "u1"
NewStudent == [id |-> StudentA, role |-> "student", user_id |-> NewUserId]

AddFinish(toast) ==
  [ui.add EXCEPT !.pc = "idle", !.loading = FALSE, !.toast = toast]

\* form.handleSubmit(onSubmit): the schema is checked, then onSubmit runs up
\* to its first await, the sign-up request.
AddStudent_onSubmit ==
  /\ ui.add.pc = "idle" /\ ~ui.add.loading
  /\ SchemaAcceptsCpf(ui.add.cpf)
  /\ ui' = [ui EXCEPT !.add = [@ EXCEPT !.pc = "signup", !.loading = TRUE,
                                  !.toast = "none",
                                  !.password = AddStudent_password(ui.add.cpf)]]
  /\ UNCHANGED <<now, profiles, plans, student_plans, check_ins,
                 pendingInsert, gate, stu, del, form, view, fk, users>>

\* supabase.auth.signUp answers: an error is thrown to the catch, else the
\* account exists with the password handed over and the profile insert is
\* sent.  cpf is kept with the account to tell what it was created from.
AddSignUp(ok) ==
  /\ ui.add.pc = "signup"
  /\ IF ok /\ users = {}
       THEN /\ users' = {[id |-> NewUserId, password |-> ui.add.password,
                          cpf |-> ui.add.cpf]}
            /\ ui' = [ui EXCEPT !.add = [@ EXCEPT !.pc = "insert",
                                           !.user = NewUserId]]
       ELSE /\ UNCHANGED users
            /\ ui' = [ui EXCEPT !.add = AddFinish("error")]
  /\ UNCHANGED <<now, profiles, plans, student_plans, check_ins,
                 pendingInsert, gate, stu, del, form, view, fk>>

\* from('profiles').insert({..., role: 'student'}) answers; on success the
\* toast and form.reset().
AddInsert(ok) ==
  /\ ui.add.pc = "insert"
  /\ IF ok
       THEN /\ profiles' = profiles \cup {NewStudent}
            /\ ui' = [ui EXCEPT !.add = [AddFinish("added") EXCEPT
                                           !.cpf = <<>>]]
       ELSE /\ UNCHANGED profiles
            /\ ui' = [ui EXCEPT !.add = AddFinish("error")]
  /\ UNCHANGED <<now, plans, student_plans, check_ins, pendingInsert, gate,
                 stu, del, form, view, fk, users>>

LoginFinish(toast) ==
  [ui.login EXCEPT !.pc = "idle", !.loading = FALSE, !.toast = toast]

\* The student types a CPF into the login form's field.
LoginType(loginForm, typed) ==
  /\ ui.login.pc = "idle" /\ ~ui.login.loading
  /\ ui.add.pc = "idle"
  /\ ui' = [ui EXCEPT !.login = [UiIdle.login EXCEPT
                                   !.form = loginForm,
                                   !.typed = typed,
                                   !.cpf = MaxLengthInput(typed)]]
  /\ UNCHANGED <<now, profiles, plans, student_plans, check_ins,
                 pendingInsert, gate, stu, del, form, view, fk, users>>

\* handleSubmit(onSubmit) of either login form: the schema is checked, then
\* the sign-in request is sent with the digits of the field as password.
onStudentLogin ==
  /\ ui.login.pc = "idle" /\ ~ui.login.loading
  /\ ui.login.form \in LoginForms
  /\ ui.login.password = <<>>
  /\ SchemaAcceptsCpf(ui.login.cpf)
  /\ ui' = [ui EXCEPT !.login = [@ EXCEPT
              !.pc = "auth", !.loading = TRUE, !.toast = "none",
              !.password = IF ui.login.form = "Login"
                             THEN Login_password(ui.login.cpf)
                             ELSE StudentLoginForm_password(ui.login.cpf)]]
  /\ UNCHANGED <<now, profiles, plans, student_plans, check_ins,
                 pendingInsert, gate, stu, del, form, view, fk, users>>

\* signInWithPassword answers: authError for a wrong password or a failed
\* request ('Email ou CPF incorretos'), else the profile select is sent.
LoginAuth(ok) ==
  /\ ui.login.pc = "auth"
  /\ LET found == {u \in users : u.password = ui.login.password} IN
     ui' = [ui EXCEPT !.login =
              IF ok /\ found # {}
                THEN [@ EXCEPT !.pc = "profile",
                               !.user = (CHOOSE u \in found : TRUE).id]
                ELSE LoginFinish("error")]
  /\ UNCHANGED <<now, profiles, plans, student_plans, check_ins,
                 pendingInsert, gate, stu, del, form, view, fk, users>>

\* The context after setUser(authData.user); setProfile(profile).
SignedInContext(user, profile) ==
  [ui.ctx EXCEPT !.user = [id |-> user], !.profile = profile]

\* onStudentLogin, had it set the user as soon as the password was accepted.
LoginProfileUserFirst(ok) ==
  /\ ui.login.pc = "profile"
  /\ LET found == {q \in profiles :
                     q.user_id = ui.login.user /\ q.role = "student"} IN
     ui' = IF ok /\ Cardinality(found) = 1
             THEN [ui EXCEPT
                     !.login = [LoginFinish("welcome") EXCEPT
                                  !.profile = (CHOOSE q \in found : TRUE).id],
                     !.ctx = SignedInContext(ui.login.user,
                                             CHOOSE q \in found : TRUE)]
             ELSE [ui EXCEPT !.login = LoginFinish("error"),
                             !.ctx = [@ EXCEPT !.user = [id |-> ui.login.user]]]
  /\ UNCHANGED <<now, profiles, plans, student_plans, check_ins,
                 pendingInsert, gate, stu, del, form, view, fk, users>>

\* .eq('user_id', user.id).eq('role', 'student').single() answers: the
\* error is thrown to the catch, else setUser, setProfile and the toast.
LoginProfile(ok) ==
  /\ ui.login.pc = "profile"
  /\ LET found == {q \in profiles :
                     q.user_id = ui.login.user /\ q.role = "student"} IN
     ui' = IF ok /\ Cardinality(found) = 1
             THEN [ui EXCEPT
                     !.login = [LoginFinish("welcome") EXCEPT
                                  !.profile = (CHOOSE q \in found : TRUE).id],
                     !.ctx = SignedInContext(ui.login.user,
                                             CHOOSE q \in found : TRUE)]
             ELSE [ui EXCEPT !.login = LoginFinish("error")]
  /\ UNCHANGED <<now, profiles, plans, student_plans, check_ins,
                 pendingInsert, gate, stu, del, form, view, fk, users>>

\* The characters a CPF is typed with, and the CPF strings tried.
CpfChars == {"1", "2", "."}
RECURSIVE Strings(_)
Strings(n) ==
  IF n = 0 THEN {<<>>}
  ELSE {<<c>> \o t : c \in CpfChars, t \in Strings(n - 1)}
CpfStrings == UNION {Strings(n) : n \in MinCpfLen..MaxCpfLen}

InitAuth ==
  /\ now = 0
  /\ profiles = {[id |-> AdminC, role |-> "admin", user_id |-> "u0"]}
  /\ plans = PlanIds
  /\ student_plans = <<>>
  /\ check_ins = <<>>
  /\ pendingInsert = [c \in Clients |-> Null]
  /\ gate = GateIdle
  /\ stu = StuInit
  /\ del = Null
  /\ form = Null
  /\ view = Null
  /\ fk = FALSE
  /\ users = {}
  /\ \E cpf \in CpfStrings : ui = [UiIdle EXCEPT !.add.cpf = cpf]

\* The student enters the CPF the account was created with; before there
\* is an account, some CPF.
TypedCpfs ==
  IF users = {} THEN {<<"1", "2", "1", "2", "1", "2">>}
  ELSE {u.cpf : u \in users}

NextAuth ==
  \/ AddStudent_onSubmit
  \/ \E ok \in BOOLEAN : AddSignUp(ok)
  \/ \E ok \in BOOLEAN : AddInsert(ok)
  \/ \E loginForm \in LoginForms, typed \in TypedCpfs :
       LoginType(loginForm, typed)
  \/ onStudentLogin
  \/ \E ok \in BOOLEAN : LoginAuth(ok)
  \/ \E ok \in BOOLEAN : LoginProfile(ok)

SpecAuth == InitAuth /\ [][NextAuth]_vars

----------------------------------------------------------------------------
(* Students: profile edits, face capture, deletion, check-in history *)

Names == {"n1", "n2"}

StudentsProfiles ==
  {[id |-> AdminC, role |-> "admin", user_id |-> "u0", full_name |-> "n1",
    face_encoding |-> "none"],
   [id |-> StudentA, role |-> "student", user_id |-> "uA",
    full_name |-> "n1", face_encoding |-> "none"],
   [id |-> StudentB, role |-> "student", user_id |-> "uB",
    full_name |-> "n1", face_encoding |-> "none"]}

\* An update that also writes the role column.
EditedAsAdmin(row, full_name) ==
  [row EXCEPT !.full_name = full_name, !.role = "admin"]

\* .update({ full_name, phone, cpf, updated_at }): the columns written.
Edited(row, full_name) == [row EXCEPT !.full_name = full_name]

\* Profile.onUpdateProfile: the signed-in user edits their own profile,
\* .update({...}).eq('user_id', user.id).
Profile_onUpdateProfile(user_id, full_name, ok) ==
  /\ \E q \in profiles : q.user_id = user_id
  /\ profiles' = IF ok
                   THEN {IF q.user_id = user_id THEN Edited(q, full_name)
                         ELSE q : q \in profiles}
                   ELSE profiles
  /\ UNCHANGED <<now, plans, student_plans, check_ins, pendingInsert, gate,
                 stu, del, form, view, fk, users, ui>>

\* EditStudentDialog.onSubmit: the admin edits a student of the list,
\* .update({...}).eq('id', student.id).
EditStudent_onSubmit(student, full_name, ok) ==
  /\ student.role = "student"
  /\ profiles' = IF ok
                   THEN {IF q.id = student.id THEN Edited(q, full_name)
                         ELSE q : q \in profiles}
                   ELSE profiles
  /\ UNCHANGED <<now, plans, student_plans, check_ins, pendingInsert, gate,
                 stu, del, form, view, fk, users, ui>>

\* Profile.handleFaceCapture:
\* .update({ face_encoding, profile_photo_url }).eq('id', profile.id)
handleFaceCapture(profile, ok) ==
  /\ profiles' = IF ok
                   THEN {IF q.id = profile.id
                           THEN [q EXCEPT !.face_encoding = "f1"]
                           ELSE q : q \in profiles}
                   ELSE profiles
  /\ UNCHANGED <<now, plans, student_plans, check_ins, pendingInsert, gate,
                 stu, del, form, view, fk, users, ui>>

\* The rows left if a profile delete took every row of the table with it.
CascadeAll(rows, ids) ==
  IF fk /\ ids # {} THEN <<>> ELSE rows

\* The rows left when the profiles ids go: where student_id REFERENCES
\* profiles(id) ON DELETE CASCADE is declared the rows of those profiles go
\* with them; the schema without the keys leaves them.
CascadeFrom(rows, ids) ==
  IF fk THEN SelectSeq(rows, LAMBDA r : r.student_id \notin ids) ELSE rows

DelSFinish(toast) ==
  [ui.delS EXCEPT !.pc = "idle", !.loading = FALSE, !.toast = toast]

\* DeleteStudentDialog.handleDelete up to its first await: the early return
\* on a missing student, setLoading(true), auth.admin.deleteUser sent.
DeleteStudent_handleDelete(student) ==
  /\ ui.delS.pc = "idle" /\ ~ui.delS.loading
  /\ ui' = IF student = Null THEN ui
           ELSE [ui EXCEPT !.delS = [pc |-> "auth", loading |-> TRUE,
                                     toast |-> "none",
                                     student |-> [id |-> student.id,
                                                  user_id |-> student.user_id]]]
  /\ UNCHANGED <<now, profiles, plans, student_plans, check_ins,
                 pendingInsert, gate, stu, del, form, view, fk, users>>

\* auth.admin.deleteUser answers; an error is logged and ignored.  When the
\* account is deleted, profiles.user_id REFERENCES auth.users(id) ON DELETE
\* CASCADE (declared by every schema) takes the profile with it.  Then the
\* profile delete is sent.
DeleteStudentAuth(ok) ==
  /\ ui.delS.pc = "auth"
  /\ LET gone == {q \in profiles : ok /\ q.user_id = ui.delS.student.user_id}
     IN /\ users' = {u \in users : ~(ok /\ u.id = ui.delS.student.user_id)}
        /\ profiles' = profiles \ gone
        /\ student_plans' = CascadeFrom(student_plans, {q.id : q \in gone})
        /\ check_ins' = CascadeFrom(check_ins, {q.id : q \in gone})
  /\ ui' = [ui EXCEPT !.delS.pc = "profile"]
  /\ UNCHANGED <<now, plans, pendingInsert, gate, stu, del, form, view, fk>>

\* from('profiles').delete().eq('id', student.id) answers.
DeleteStudentProfile(ok) ==
  /\ ui.delS.pc = "profile"
  /\ LET gone == {q \in profiles : ok /\ q.id = ui.delS.student.id}
     IN /\ profiles' = profiles \ gone
        /\ student_plans' = CascadeFrom(student_plans, {q.id : q \in gone})
        /\ check_ins' = CascadeFrom(check_ins, {q.id : q \in gone})
  /\ ui' = [ui EXCEPT !.delS = DelSFinish(IF ok THEN "deleted" ELSE "error")]
  /\ UNCHANGED <<now, plans, pendingInsert, gate, stu, del, form, view, fk,
                 users>>

\* check_ins has row level security enabled and no DELETE policy: a delete
\* request of any role removes no row and reports no error.
CheckInDeleteAllowed(role) == role \in {}

\* CheckInHistoryDialog.handleDeleteCheckIn: a row of the list is selected.
handleDeleteCheckIn(checkIn) ==
  /\ ui' = [ui EXCEPT !.hist = [selected |-> checkIn, toast |-> "none"]]
  /\ UNCHANGED <<now, profiles, plans, student_plans, check_ins,
                 pendingInsert, gate, stu, del, form, view, fk, users>>

\* CheckInHistoryDialog.confirmDelete, run by the admin: the delete request
\* and its answer.
confirmDelete(ok) ==
  /\ ui.hist.selected # Null
  /\ check_ins' =
       IF ok /\ CheckInDeleteAllowed("admin")
         THEN SelectSeq(check_ins, LAMBDA r : r # ui.hist.selected)
         ELSE check_ins
  /\ ui' = [ui EXCEPT !.hist = [selected |-> IF ok THEN Null ELSE @.selected,
                                toast |-> IF ok THEN "deleted" ELSE "error"]]
  /\ UNCHANGED <<now, profiles, plans, student_plans, pendingInsert, gate,
                 stu, del, form, view, fk, users>>

StudentsFormData ==
  [plan_id : {"p1"}, start_date : {0}, end_date : {9}, status : {"active"}]

\* student_id REFERENCES profiles(id): where the key is declared, the store
\* refuses a row whose student is gone.
StudentExists(student_id) == fk => \E q \in profiles : q.id = student_id

\* An admin tab, its student list fetched earlier, assigns a plan.
StudentsAssign ==
  /\ Len(student_plans) < MaxPlanRows
  /\ \E student_id \in {StudentA, StudentB}, data \in StudentsFormData,
        ok \in BOOLEAN :
       onSubmit(student_id, Null, data, ok /\ StudentExists(student_id))

InitStudents ==
  /\ now = 0
  /\ profiles = StudentsProfiles
  /\ plans = PlanIds
  /\ student_plans = <<>>
  /\ check_ins = <<>>
  /\ pendingInsert = [c \in Clients |-> Null]
  /\ gate = GateIdle
  /\ stu = StuInit
  /\ del = Null
  /\ form = Null
  /\ view = Null
  /\ fk \in BOOLEAN
  /\ users = {[id |-> q.user_id, password |-> DefaultPassword, cpf |-> <<>>] :
                q \in StudentsProfiles}
  /\ ui = UiIdle

\* The users who open their own Profile page: the admin.  The students'
\* names are edited by the admin through EditStudentDialog.
SelfEditors == {q \in profiles : q.role = "admin"}

NextStudents ==
  \/ StudentsAssign
  \/ \E ok \in BOOLEAN : StuMount(ok)
  \/ StuCheckIn
  \/ \E c \in Clients, ok \in BOOLEAN : InsertCheckIn(c, ok)
  \/ \E q \in SelfEditors, full_name \in Names, ok \in BOOLEAN :
       Profile_onUpdateProfile(q.user_id, full_name, ok)
  \/ \E q \in profiles, full_name \in Names, ok \in BOOLEAN :
       EditStudent_onSubmit(q, full_name, ok)
  \/ \E q \in SelfEditors, ok \in BOOLEAN : handleFaceCapture(q, ok)
  \/ \E student \in {q \in profiles : q.role = "student"} \cup {Null} :
       DeleteStudent_handleDelete(student)
  \/ \E ok \in BOOLEAN : DeleteStudentAuth(ok)
  \/ \E ok \in BOOLEAN : DeleteStudentProfile(ok)
  \/ \E i \in 1..Len(check_ins) : handleDeleteCheckIn(check_ins[i])
  \/ \E ok \in BOOLEAN : confirmDelete(ok)

SpecStudents == InitStudents /\ [][NextStudents]_vars

----------------------------------------------------------------------------
(* The face tab of the admin check-in screen: FaceRecognitionCamera *)

\* A callback that hands over the bare profile id.
FaceCodeBare(studentId) == studentId

\* onRecognized={(studentId) => processCheckIn(`KGYM-CHECKIN-${studentId}`)}
FaceCode(studentId) ==
  KGYM \o <<Dash>> \o CHECKIN \o <<Dash>> \o studentId

\* FaceRecognitionCamera.performFaceRecognition: the profiles that have a
\* face_encoding are fetched and the first of them is taken as recognized
\* (the order and the encodings are the store's: any profile may be it, or
\* none); setTimeout then arms the onRecognized callback.  The button that
\* starts it is disabled while scanning and while status is 'error'.
performFaceRecognition(found, ok) ==
  /\ ~ui.cam.isScanning
  /\ ui.cam.status # "error"
  /\ ui.cam.timer = <<>>
  /\ ui' = [ui EXCEPT !.cam =
              IF ~ok THEN [@ EXCEPT !.status = "error", !.toast = "error"]
              ELSE IF found = Null
                THEN [@ EXCEPT !.status = "waiting", !.toast = "noface"]
              ELSE [@ EXCEPT !.status = "found", !.toast = "none",
                             !.timer = found.id]]
  /\ UNCHANGED <<now, profiles, plans, student_plans, check_ins,
                 pendingInsert, gate, stu, del, form, view, fk, users>>

\* The timer fires: onRecognized(recognizedProfile.id), that is
\* processCheckIn of the wrapped id.
onRecognized ==
  /\ ui.cam.timer # <<>>
  /\ gate.pc = "idle"
  /\ gate' = processCheckIn(FaceCode(ui.cam.timer))
  /\ ui' = [ui EXCEPT !.cam = [@ EXCEPT !.timer = <<>>,
                                        !.recognized = ui.cam.timer]]
  /\ UNCHANGED <<now, profiles, plans, student_plans, check_ins,
                 pendingInsert, stu, del, form, view, fk, users>>

\* The codes shown by the students' and the admin's screens, and a code
\* typed by hand.
FaceQrCodes ==
  {generateStudentQR(q.id) : q \in profiles}
    \cup {generateStudentQR(<<"a", "b", "c">>)}

FaceFormData ==
  [plan_id : {"p1"}, start_date : {0}, end_date : GateEndDates,
   status : {"active", "inactive"}]

FaceAssign ==
  /\ Len(student_plans) < MaxPlanRows
  /\ \E data \in FaceFormData, ok \in BOOLEAN :
       onSubmit(StudentA, Null, data, ok)

InitFace ==
  /\ now = 0
  /\ profiles = {[id |-> StudentA, role |-> "student"],
                 [id |-> AdminC, role |-> "admin"]}
  /\ plans = PlanIds
  /\ student_plans = <<>>
  /\ check_ins = <<>>
  /\ pendingInsert = [c \in Clients |-> Null]
  /\ gate = GateIdle
  /\ stu = StuInit
  /\ del = Null
  /\ form = Null
  /\ view = Null
  /\ fk = FALSE
  /\ users = {}
  /\ ui = UiIdle

NextFace ==
  \/ Tick
  \/ FaceAssign
  \/ \E qrCode \in FaceQrCodes : GateStart(qrCode)
  \/ \E ok \in BOOLEAN : GateLookup(ok)
  \/ \E found \in profiles \cup {Null}, ok \in BOOLEAN :
       performFaceRecognition(found, ok)
  \/ onRecognized

SpecFace == InitFace /\ [][NextFace]_vars

----------------------------------------------------------------------------
(* The operations that write or read profiles: edits, face capture, login *)

RolesCpf == <<"1", "2", "1", "2", "1", "2">>

InitRoles ==
  /\ now = 0
  /\ profiles = StudentsProfiles
  /\ plans = PlanIds
  /\ student_plans = <<>>
  /\ check_ins = <<>>
  /\ pendingInsert = [c \in Clients |-> Null]
  /\ gate = GateIdle
  /\ stu = StuInit
  /\ del = Null
  /\ form = Null
  /\ view = Null
  /\ fk \in BOOLEAN
  /\ users = {[id |-> "uA", password |-> AddStudent_password(RolesCpf),
               cpf |-> RolesCpf]}
  /\ ui = UiIdle

NextRoles ==
  \/ StudentsAssign
  \/ \E q \in SelfEditors, full_name \in Names, ok \in BOOLEAN :
       Profile_onUpdateProfile(q.user_id, full_name, ok)
  \/ \E q \in profiles, full_name \in Names, ok \in BOOLEAN :
       EditStudent_onSubmit(q, full_name, ok)
  \/ \E q \in SelfEditors, ok \in BOOLEAN : handleFaceCapture(q, ok)
  \/ \E loginForm \in LoginForms, typed \in TypedCpfs :
       LoginType(loginForm, typed)
  \/ onStudentLogin
  \/ \E ok \in BOOLEAN : LoginAuth(ok)
  \/ \E ok \in BOOLEAN : LoginProfile(ok)

SpecRoles == InitRoles /\ [][NextRoles]_vars

----------------------------------------------------------------------------
(* Every operation with a loading flag, each split at its awaits, with the
   answers of the store arriving eventually *)

\* ManageStudentPlanDialog.onSubmit up to its await: the early return on a
\* missing student, setLoading(true), the update or insert request sent.
\* The submit button is disabled while loading.
onSubmitSend(student, currentPlan, data) ==
  /\ ~ui.mp.loading
  /\ currentPlan = Null => Len(student_plans) < MaxPlanRows
  /\ ui' = IF student = Null THEN ui
           ELSE [ui EXCEPT !.mp = [loading |-> TRUE, toast |-> "none",
                                   req |-> [student |-> student.id,
                                            currentPlan |-> currentPlan,
                                            data |-> data]]]
  /\ UNCHANGED <<now, profiles, plans, student_plans, check_ins,
                 pendingInsert, gate, stu, del, form, view, fk, users>>

\* The request answers: if (error) throw error, else the toast; the catch
\* raises the error toast; finally setLoading(false).
onSubmitAnswer(ok) ==
  /\ ui.mp.req # Null
  /\ LET req  == ui.mp.req
         done == ok /\ StudentExists(req.student)
                    /\ PlanExists(req.data.plan_id)
     IN /\ student_plans' =
             SubmittedRows(req.student, req.currentPlan, req.data, done)
        /\ ui' = [ui EXCEPT !.mp = [loading |-> FALSE,
                                    toast |-> IF done THEN "saved"
                                              ELSE "error",
                                    req |-> Null]]
  /\ UNCHANGED <<now, profiles, plans, check_ins, pendingInsert, gate, stu,
                 del, form, view, fk, users>>

\* A check-in may be started while the table has room for its row.
Room ==
  Len(check_ins) + (IF gate.pc # "idle" THEN 1 ELSE 0)
                 + (IF pendingInsert["stu"] # Null THEN 1 ELSE 0)
    < MaxCheckIns

\* The routes of App.tsx that hold the operations: a browser tab shows one
\* of them, and the state of its components lives while it is shown.
LivePages == {"checkin", "student-checkin", "plans", "students", "login"}

LiveRow ==
  [id |-> 1, student_id |-> StudentA, plan_id |-> "p1", start_date |-> 0,
   end_date |-> 9, status |-> "active"]

InitLive ==
  /\ now = 0
  /\ plans = PlanIds
  /\ check_ins = <<>>
  /\ pendingInsert = [c \in Clients |-> Null]
  /\ gate = GateIdle
  /\ stu = StuInit
  /\ del = DelIdle
  /\ form = Null
  /\ view = Null
  /\ fk \in BOOLEAN
  /\ \E page \in LivePages :
       /\ ui = [UiIdle EXCEPT !.add.cpf = RolesCpf, !.page = page]
       /\ profiles =
            {[id |-> AdminC, role |-> "admin", user_id |-> "u0"],
             [id |-> StudentB, role |-> "student", user_id |-> "uB"]}
            \cup (IF page = "student-checkin" THEN {NewStudent} ELSE {})
       /\ users = IF page = "login"
                    THEN {[id |-> "uB", cpf |-> RolesCpf,
                           password |-> AddStudent_password(RolesCpf)]}
                    ELSE {}
       /\ student_plans = IF page \in {"student-checkin", "plans"}
                            THEN <<LiveRow>> ELSE <<>>

\* No request is awaiting its answer and no timer is armed.
Quiet ==
  /\ gate.pc = "idle" /\ del.pc = "idle"
  /\ \A c \in Clients : pendingInsert[c] = Null
  /\ ~ui.mp.loading /\ ui.add.pc = "idle" /\ ui.delS.pc = "idle"
  /\ ui.login.pc = "idle" /\ ui.cam.timer = <<>>

\* What the user of the page does: one operation is started at a time,
\* when the one before has been answered.
LiveCheckIn ==
  /\ ui.page = "checkin" /\ Quiet /\ Room
  /\ \/ \E qrCode \in FaceQrCodes : GateStart(qrCode)
     \/ \E found \in profiles \cup {Null}, ok \in BOOLEAN :
          performFaceRecognition(found, ok)

LiveStudentCheckIn ==
  /\ ui.page = "student-checkin" /\ Quiet
  /\ \/ \E ok \in BOOLEAN : StuMount(ok)
     \/ Room /\ StuCheckIn

LivePlans ==
  /\ ui.page = "plans" /\ Quiet
  /\ \E plan \in {[id |-> p] : p \in plans} \cup {Null} : handleDelete(plan)

LiveStudents ==
  /\ ui.page = "students" /\ Quiet
  /\ \/ \E student \in {[id |-> q.id] : q \in profiles} \cup {Null},
           data \in StudentsFormData :
          onSubmitSend(student, Null, data)
     \/ \E i \in 1..Len(student_plans), data \in StudentsFormData :
          onSubmitSend([id |-> student_plans[i].student_id],
                       student_plans[i], data)
     \/ AddStudent_onSubmit
     \/ \E student \in {q \in profiles : q.role = "student"} \cup {Null} :
          DeleteStudent_handleDelete(student)

LiveLogin ==
  /\ ui.page = "login" /\ Quiet
  /\ \/ \E loginForm \in LoginForms, typed \in TypedCpfs :
          LoginType(loginForm, typed)
     \/ onStudentLogin

LiveGate == \E ok \in BOOLEAN : GateLookup(ok)
LiveInsert(c) == \E ok \in BOOLEAN : InsertCheckIn(c, ok)
LiveDeleteCheck == \E ok \in BOOLEAN : DeleteCheck(ok)
LiveDeletePlan == \E ok \in BOOLEAN : DeletePlan(ok)
LiveSubmit == \E ok \in BOOLEAN : onSubmitAnswer(ok)
LiveSignUp == \E ok \in BOOLEAN : AddSignUp(ok)
LiveAddInsert == \E ok \in BOOLEAN : AddInsert(ok)
LiveDeleteAuth == \E ok \in BOOLEAN : DeleteStudentAuth(ok)
LiveDeleteProfile == \E ok \in BOOLEAN : DeleteStudentProfile(ok)
LiveLoginAuth == \E ok \in BOOLEAN : LoginAuth(ok)
LiveLoginProfile == \E ok \in BOOLEAN : LoginProfile(ok)

NextLive ==
  \/ LiveCheckIn
  \/ LiveStudentCheckIn
  \/ LivePlans
  \/ LiveStudents
  \/ LiveLogin
  \/ LiveGate
  \/ \E c \in Clients : LiveInsert(c)
  \/ onRecognized
  \/ LiveDeleteCheck
  \/ LiveDeletePlan
  \/ LiveSubmit
  \/ LiveSignUp
  \/ LiveAddInsert
  \/ LiveDeleteAuth
  \/ LiveDeleteProfile
  \/ LiveLoginAuth
  \/ LiveLoginProfile

\* Every request is answered and every timer fires; nothing makes a user
\* act.
LiveFairness ==
  /\ WF_vars(LiveGate)
  /\ \A c \in Clients : WF_vars(LiveInsert(c))
  /\ WF_vars(onRecognized)
  /\ WF_vars(LiveDeleteCheck)
  /\ WF_vars(LiveDeletePlan)
  /\ WF_vars(LiveSubmit)
  /\ WF_vars(LiveSignUp)
  /\ WF_vars(LiveAddInsert)
  /\ WF_vars(LiveDeleteAuth)
  /\ WF_vars(LiveDeleteProfile)
  /\ WF_vars(LiveLoginAuth)
  /\ WF_vars(LiveLoginProfile)

SpecLive == InitLive /\ [][NextLive]_vars /\ LiveFairness

----------------------------------------------------------------------------
(* The dates of the dialog's form while it is open: the two handlers, the
   end date typed by hand, and the clock *)

\* End dates typed into the field, or stored with the plan being edited.
EndDateInputs == {[y |-> 2023, m |-> 1, d |-> 1], [y |-> 2025, m |-> 6, d |-> 30]}

\* <Input id="end_date" type="date" {...form.register("end_date")}>: the
\* field is edited or cleared by hand.
EndDateInput(endDate) ==
  /\ form' = [form EXCEPT !.end_date = endDate]
  /\ UNCHANGED <<now, profiles, plans, student_plans, check_ins,
                 pendingInsert, gate, stu, del, view, fk, users, ui>>

\* The dialog opens: form.reset with today and no plan, or with the dates
\* of the plan being edited.
InitEndDate ==
  /\ now = 0
  /\ profiles = {[id |-> StudentA, role |-> "student"],
                 [id |-> AdminC, role |-> "admin"]}
  /\ plans = PlanIds
  /\ student_plans = <<>>
  /\ check_ins = <<>>
  /\ pendingInsert = [c \in Clients |-> Null]
  /\ gate = GateIdle
  /\ stu = StuInit
  /\ del = Null
  /\ \/ form \in [tz : TzOffsets, start_date : FormStartDates, months : {0},
                   end_date : {Null}]
     \/ form \in [tz : TzOffsets, start_date : FormStartDates,
                   months : FormDurations, end_date : EndDateInputs]
  /\ view = Null
  /\ fk = FALSE
  /\ users = {}
  /\ ui = UiIdle

NextEndDate ==
  \/ Tick
  \/ \E months \in FormDurations : handlePlanChange(months)
  \/ \E startDate \in FormStartDates : handleStartDateChange(startDate)
  \/ \E endDate \in EndDateInputs \cup {Null} : EndDateInput(endDate)

SpecEndDate == InitEndDate /\ [][NextEndDate]_vars

----------------------------------------------------------------------------
(* Two admins, each with a ManageStudentPlanDialog of their own *)

Admins == {"admin1", "admin2"}

AssignFormData ==
  [plan_id : PlanIds, start_date : {0}, end_date : {9},
   status : {"active", "inactive"}]

\* The dialog opens for a student of the list the admin's page fetched:
\* currentPlan is the row the list shows as the student's plan, the one
\* found with status 'active', or none.
OpenPlanDialog(a, student) ==
  /\ ui.dlg[a] = Null
  /\ LET actives == FindActive(RowsOf(student)) IN
     \E currentPlan \in (IF actives = {} THEN {Null} ELSE actives) :
       ui' = [ui EXCEPT !.dlg[a] = [student |-> student,
                                    currentPlan |-> currentPlan]]
  /\ UNCHANGED <<now, profiles, plans, student_plans, check_ins,
                 pendingInsert, gate, stu, del, form, view, fk, users>>

\* The admin submits the dialog: onSubmit with the props the dialog was
\* opened with; onOpenChange(false) closes it.
SubmitPlanDialog(a, data, ok) ==
  /\ ui.dlg[a] # Null
  /\ ui.dlg[a].currentPlan = Null => Len(student_plans) < MaxPlanRows
  /\ student_plans' =
       SubmittedRows(ui.dlg[a].student, ui.dlg[a].currentPlan, data, ok)
  /\ ui' = [ui EXCEPT !.dlg[a] = IF ok THEN Null ELSE @]
  /\ UNCHANGED <<now, profiles, plans, check_ins, pendingInsert, gate, stu,
                 del, form, view, fk, users>>

InitAssign ==
  /\ now = 0
  /\ profiles = StudentsProfiles
  /\ plans = PlanIds
  /\ student_plans = <<>>
  /\ check_ins = <<>>
  /\ pendingInsert = [c \in Clients |-> Null]
  /\ gate = GateIdle
  /\ stu = StuInit
  /\ del = Null
  /\ form = Null
  /\ view = Null
  /\ fk = FALSE
  /\ users = {}
  /\ ui = UiIdle

NextAssign ==
  \/ \E a \in Admins, student \in {StudentA, StudentB} :
       OpenPlanDialog(a, student)
  \/ \E a \in Admins, data \in AssignFormData, ok \in BOOLEAN :
       SubmitPlanDialog(a, data, ok)

SpecAssign == InitAssign /\ [][NextAssign]_vars

----------------------------------------------------------------------------
(* The auth context, the login handlers that set it and the route guard
   that reads it *)

\* ProtectedRoute: what is rendered for a context.
ProtectedRoute(ctx) ==
  IF ctx.loading THEN "spinner"
  ELSE IF ctx.user = Null THEN "LoginForm"
  ELSE IF ctx.profile # Null /\ ctx.profile.role = "admin" THEN "children"
  ELSE IF ctx.profile # Null /\ ctx.profile.role = "student"
    THEN "Navigate /student"
  ELSE "children"

\* The provider mounts: the stored session, if any, gives the user, and the
\* profile of that user is looked up; then loading ends.
AuthProvider_init(ok) ==
  /\ ui.ctx.loading
  /\ LET found == IF ui.ctx.session = Null THEN {}
                  ELSE {q \in profiles :
                          ok /\ q.user_id = ui.ctx.session.id}
     IN ui' = [ui EXCEPT !.ctx = [@ EXCEPT
                 !.loading = FALSE,
                 !.user = ui.ctx.session,
                 !.profile = IF found = {} THEN Null
                             ELSE CHOOSE q \in found : TRUE]]
  /\ UNCHANGED <<now, profiles, plans, student_plans, check_ins,
                 pendingInsert, gate, stu, del, form, view, fk, users>>

\* logout: the teardown of the context.
logout ==
  /\ ~ui.ctx.loading
  /\ ui.ctx.user # Null
  /\ ui.login.pc = "idle"
  /\ ui' = [ui EXCEPT !.ctx = [@ EXCEPT !.user = Null, !.profile = Null,
                                        !.session = Null]]
  /\ UNCHANGED <<now, profiles, plans, student_plans, check_ins,
                 pendingInsert, gate, stu, del, form, view, fk, users>>

\* Login.onTeacherLogin up to its first await: setLoading(true) and
\* signInWithPassword sent with the email and password of the form.
onTeacherLogin(email, password) ==
  /\ ui.login.pc = "idle" /\ ~ui.login.loading
  /\ ~ui.ctx.loading
  /\ ui' = [ui EXCEPT !.login = [UiIdle.login EXCEPT
              !.form = "Teacher", !.pc = "teacher-auth", !.loading = TRUE,
              !.email = email, !.password = password]]
  /\ UNCHANGED <<now, profiles, plans, student_plans, check_ins,
                 pendingInsert, gate, stu, del, form, view, fk, users>>

\* signInWithPassword answers: if (error) throw error, else the select of
\* the admin profile is sent.
TeacherAuth(ok) ==
  /\ ui.login.pc = "teacher-auth"
  /\ LET found == {u \in users : u.id = ui.login.email
                                 /\ u.password = ui.login.password} IN
     ui' = [ui EXCEPT !.login =
              IF ok /\ found # {}
                THEN [@ EXCEPT !.pc = "teacher-profile",
                               !.user = ui.login.email]
                ELSE LoginFinish("error")]
  /\ UNCHANGED <<now, profiles, plans, student_plans, check_ins,
                 pendingInsert, gate, stu, del, form, view, fk, users>>

\* .eq('user_id', user.id).eq('role', 'admin').single() answers: the error
\* is thrown to the catch, else setUser, setProfile and the toast.
TeacherProfile(ok) ==
  /\ ui.login.pc = "teacher-profile"
  /\ LET found == {q \in profiles :
                     q.user_id = ui.login.user /\ q.role = "admin"} IN
     ui' = IF ok /\ Cardinality(found) = 1
             THEN [ui EXCEPT
                     !.login = [LoginFinish("welcome") EXCEPT
                                  !.profile = (CHOOSE q \in found : TRUE).id],
                     !.ctx = SignedInContext(ui.login.user,
                                             CHOOSE q \in found : TRUE)]
             ELSE [ui EXCEPT !.login = LoginFinish("error")]
  /\ UNCHANGED <<now, profiles, plans, student_plans, check_ins,
                 pendingInsert, gate, stu, del, form, view, fk, users>>

TeacherPassword == <<"s", "e", "n", "h", "a", "1">>

\* The accounts: the admin's, a student's, and one whose profile is gone
\* (DeleteStudentDialog deleted the profile and not the account).
SessionUsers ==
  {[id |-> "u0", password |-> TeacherPassword, cpf |-> <<>>],
   [id |-> "uB", password |-> AddStudent_password(RolesCpf),
    cpf |-> RolesCpf],
   [id |-> "uX", password |-> DefaultPassword, cpf |-> <<>>]}

InitSession ==
  /\ now = 0
  /\ profiles = {[id |-> AdminC, role |-> "admin", user_id |-> "u0"],
                 [id |-> StudentB, role |-> "student", user_id |-> "uB"]}
  /\ plans = PlanIds
  /\ student_plans = <<>>
  /\ check_ins = <<>>
  /\ pendingInsert = [c \in Clients |-> Null]
  /\ gate = GateIdle
  /\ stu = StuInit
  /\ del = Null
  /\ form = Null
  /\ view = Null
  /\ fk = FALSE
  /\ users = SessionUsers
  /\ \E session \in {[id |-> u.id] : u \in users} \cup {Null} :
       ui = [UiIdle EXCEPT !.ctx.session = session]

NextSession ==
  \/ \E ok \in BOOLEAN : AuthProvider_init(ok)
  \/ logout
  \/ \E u \in users, v \in users : onTeacherLogin(u.id, v.password)
  \/ \E ok \in BOOLEAN : TeacherAuth(ok)
  \/ \E ok \in BOOLEAN : TeacherProfile(ok)
  \/ \E loginForm \in LoginForms, typed \in TypedCpfs :
       ~ui.ctx.loading /\ LoginType(loginForm, typed)
  \/ onStudentLogin
  \/ \E ok \in BOOLEAN : LoginAuth(ok)
  \/ \E ok \in BOOLEAN : LoginProfile(ok)

SpecSession == InitSession /\ [][NextSession]_vars

----------------------------------------------------------------------------
(* Profile: the signed-in user changes the password *)

\* passwordSchema: currentPassword and newPassword of at least 6 characters
\* (confirmPassword equal to newPassword is taken as given).
passwordSchema(data) ==
  /\ Len(data.currentPassword) >= PasswordMinLen
  /\ Len(data.newPassword) >= PasswordMinLen

\* onUpdatePassword up to its sign-in request; the form is rendered for a
\* user with a profile and its button is disabled while loading.
onUpdatePassword(data) ==
  /\ ~ui.ctx.loading /\ ui.ctx.user # Null /\ ui.ctx.profile # Null
  /\ ~ui.pw.loading
  /\ passwordSchema(data)
  /\ ui' = [ui EXCEPT !.pw = [pc |-> "verify", loading |-> TRUE,
                              toast |-> "none", data |-> data,
                              verified |-> FALSE, sent |-> FALSE]]
  /\ UNCHANGED <<now, profiles, plans, student_plans, check_ins,
                 pendingInsert, gate, stu, del, form, view, fk, users>>

\* The account signInWithPassword({email: user.email, password}) matches.
CurrentPasswordOk ==
  \E u \in users : /\ u.id = ui.ctx.user.id
                   /\ u.password = ui.pw.data.currentPassword

PasswordVerifyUnchecked(ok) ==
  /\ ui.pw.pc = "verify"
  /\ ui' = [ui EXCEPT !.pw = [@ EXCEPT !.pc = "update", !.sent = TRUE,
                                       !.verified = ok /\ CurrentPasswordOk]]
  /\ UNCHANGED <<now, profiles, plans, student_plans, check_ins,
                 pendingInsert, gate, stu, del, form, view, fk, users>>

\* The sign-in answers: if (signInError) throw new Error("Senha atual
\* incorreta"), else auth.updateUser({password: data.newPassword}) is sent.
PasswordVerify(ok) ==
  /\ ui.pw.pc = "verify"
  /\ ui' = [ui EXCEPT !.pw =
       IF ok /\ CurrentPasswordOk
         THEN [@ EXCEPT !.pc = "update", !.verified = TRUE, !.sent = TRUE]
         ELSE [@ EXCEPT !.pc = "idle", !.loading = FALSE,
                        !.toast = "error"]]
  /\ UNCHANGED <<now, profiles, plans, student_plans, check_ins,
                 pendingInsert, gate, stu, del, form, view, fk, users>>

\* updateUser answers: the password of the session's account is replaced,
\* or if (error) throw error; finally setLoading(false).
PasswordUpdate(ok) ==
  /\ ui.pw.pc = "update"
  /\ users' = IF ok
       THEN {IF u.id = ui.ctx.user.id
               THEN [u EXCEPT !.password = ui.pw.data.newPassword]
               ELSE u : u \in users}
       ELSE users
  /\ ui' = [ui EXCEPT !.pw = [@ EXCEPT !.pc = "idle", !.loading = FALSE,
                                       !.toast = IF ok THEN "success"
                                                 ELSE "error"]]
  /\ UNCHANGED <<now, profiles, plans, student_plans, check_ins,
                 pendingInsert, gate, stu, del, form, view, fk>>

NewPassword == <<"n", "o", "v", "a", "0", "1">>

PasswordFormData ==
  [currentPassword : {TeacherPassword, AddStudent_password(RolesCpf),
                      DefaultPassword, <<"x">>},
   newPassword : {NewPassword, TeacherPassword, DefaultPassword, <<"y">>}]

\* The contexts AuthProvider can have built for the accounts of the store.
PasswordContexts ==
  {[UiIdle.ctx EXCEPT !.loading = FALSE, !.user = [id |-> u.id],
                      !.session = [id |-> u.id],
                      !.profile = CHOOSE q \in profiles : q.user_id = u.id] :
     u \in {v \in SessionUsers : \E q \in profiles : q.user_id = v.id}}

InitPassword ==
  /\ now = 0
  /\ profiles = {[id |-> AdminC, role |-> "admin", user_id |-> "u0"],
                 [id |-> StudentB, role |-> "student", user_id |-> "uB"]}
  /\ plans = PlanIds
  /\ student_plans = <<>>
  /\ check_ins = <<>>
  /\ pendingInsert = [c \in Clients |-> Null]
  /\ gate = GateIdle
  /\ stu = StuInit
  /\ del = Null
  /\ form = Null
  /\ view = Null
  /\ fk = FALSE
  /\ users = SessionUsers
  /\ \E ctx \in PasswordContexts : ui = [UiIdle EXCEPT !.ctx = ctx]

NextPassword ==
  \/ \E data \in PasswordFormData : onUpdatePassword(data)
  \/ \E ok \in BOOLEAN : PasswordVerify(ok)
  \/ \E ok \in BOOLEAN : PasswordUpdate(ok)

SpecPassword == InitPassword /\ [][NextPassword]_vars

----------------------------------------------------------------------------
(* WorkoutSheetDialog: a workout sheet and its exercises *)

\* ui.ws is the dialog (its props workoutSheet and readOnly, its state name,
\* exercises and loading, the toast, the request in flight in pc, the last
\* handler called in op, what saveExercises took from the screen and found
\* in the store when it was called) and the two tables it writes: sheets
\* (workout_sheets, the names by id) and stored (exercises of the sheet, in
\* insertion order).

Space == " "

\* s.trim() for texts of letters and spaces
RECURSIVE TrimStart(_)
TrimStart(s) ==
  IF s = <<>> THEN s
  ELSE IF Head(s) = Space THEN TrimStart(Tail(s))
  ELSE s

RECURSIVE TrimEnd(_)
TrimEnd(s) ==
  IF s = <<>> THEN s
  ELSE IF s[Len(s)] = Space THEN TrimEnd(SubSeq(s, 1, Len(s) - 1))
  ELSE s

Trim(s) == TrimEnd(TrimStart(s))

WsFrame ==
  UNCHANGED <<now, profiles, plans, student_plans, check_ins,
              pendingInsert, gate, stu, del, form, view, fk, users>>

\* .order('order_index'): the orders the store may return the rows in.
OrderedByIndex(rows) ==
  {[i \in 1..Len(rows) |-> rows[f[i]]] :
     f \in {g \in [1..Len(rows) -> 1..Len(rows)] :
              /\ \A i, j \in 1..Len(rows) : i # j => g[i] # g[j]
              /\ \A i, j \in 1..Len(rows) :
                   i < j => rows[g[i]].order_index <= rows[g[j]].order_index}}

\* The dialog is given a sheet: the effect on [workoutSheet] sets the name
\* and runs fetchExercises, which on an error leaves the list as it was.
WorkoutSheetDialog(id, readOnly, ok) ==
  /\ ui.ws.workoutSheet = Null
  /\ \E data \in OrderedByIndex(ui.ws.stored) :
       ui' = [ui EXCEPT !.ws =
                [@ EXCEPT !.workoutSheet = [id |-> id],
                          !.readOnly = readOnly,
                          !.name = ui.ws.sheets[id],
                          !.exercises = IF ok THEN data ELSE <<>>,
                          !.toast = IF ok THEN "none" ELSE "error",
                          !.op = "fetchExercises"]]
  /\ WsFrame

\* onChange of the name input, which is disabled in readOnly mode.
setName(value) ==
  /\ ui.ws.workoutSheet # Null /\ ~ui.ws.readOnly
  /\ ui' = [ui EXCEPT !.ws.name = value, !.ws.op = "setName"]
  /\ WsFrame

\* handleUpdateWorkoutSheet up to its update request.
handleUpdateWorkoutSheet ==
  /\ ui.ws.pc = "idle"
  /\ ui' = [ui EXCEPT !.ws =
       IF ui.ws.workoutSheet = Null \/ ui.ws.readOnly
         THEN [@ EXCEPT !.op = "handleUpdateWorkoutSheet"]
       ELSE IF Trim(ui.ws.name) = <<>>
         THEN [@ EXCEPT !.op = "handleUpdateWorkoutSheet",
                        !.toast = "name-required"]
       ELSE [@ EXCEPT !.op = "handleUpdateWorkoutSheet",
                      !.loading = TRUE, !.pc = "update"]]
  /\ WsFrame

\* The update of workout_sheets answers.
UpdateSheet(ok) ==
  /\ ui.ws.pc = "update"
  /\ ui' = [ui EXCEPT !.ws =
       [@ EXCEPT !.pc = "idle", !.loading = FALSE,
                 !.toast = IF ok THEN "success" ELSE "error",
                 !.sheets = IF ok
                   THEN [@ EXCEPT ![ui.ws.workoutSheet.id] = Trim(ui.ws.name)]
                   ELSE @]]
  /\ WsFrame

addExerciseUnguarded ==
  /\ Len(ui.ws.exercises) < MaxExercises
  /\ ui' = [ui EXCEPT !.ws =
       [@ EXCEPT !.op = "addExercise",
                 !.exercises = Append(@, [name |-> <<>>,
                                          order_index |-> Len(@)])]]
  /\ WsFrame

\* addExercise: a row with an empty name and order_index exercises.length
addExercise ==
  /\ Len(ui.ws.exercises) < MaxExercises
  /\ ui' = [ui EXCEPT !.ws =
       IF ui.ws.readOnly
         THEN [@ EXCEPT !.op = "addExercise"]
         ELSE [@ EXCEPT !.op = "addExercise",
                        !.exercises = Append(@, [name |-> <<>>,
                                                 order_index |-> Len(@)])]]
  /\ WsFrame

\* updateExercise(index, 'name', value)
updateExercise(index, value) ==
  /\ index \in 1..Len(ui.ws.exercises)
  /\ ui' = [ui EXCEPT !.ws =
       IF ui.ws.readOnly
         THEN [@ EXCEPT !.op = "updateExercise"]
         ELSE [@ EXCEPT !.op = "updateExercise",
                        !.exercises[index].name = value]]
  /\ WsFrame

\* exercises.filter((_, i) => i !== index)
RemoveAt(seq, index) ==
  SubSeq(seq, 1, index - 1) \o SubSeq(seq, index + 1, Len(seq))

removeExercise(index) ==
  /\ index \in 1..Len(ui.ws.exercises)
  /\ ui' = [ui EXCEPT !.ws =
       IF ui.ws.readOnly
         THEN [@ EXCEPT !.op = "removeExercise"]
         ELSE [@ EXCEPT !.op = "removeExercise",
                        !.exercises = RemoveAt(@, index)]]
  /\ WsFrame

\* exercises.filter(ex => ex.name.trim())
RECURSIVE FilterNamed(_)
FilterNamed(exercises) ==
  IF exercises = <<>> THEN <<>>
  ELSE IF Trim(Head(exercises).name) # <<>>
    THEN <<Head(exercises)>> \o FilterNamed(Tail(exercises))
  ELSE FilterNamed(Tail(exercises))

\* .map((ex, index) => ({..., name: ex.name, order_index: index}))
exercisesToSave(exercises) ==
  LET named == FilterNamed(exercises) IN
  [i \in 1..Len(named) |-> [name |-> named[i].name, order_index |-> i - 1]]

\* saveExercises up to its delete request; the list it will insert is the
\* one on the screen when it is called. Its button is rendered when
\* !readOnly && exercises.length > 0 and disabled while loading; in readOnly
\* mode the call is one made past the buttons, which the function's own
\* test of readOnly answers.
saveExercises ==
  /\ ui.ws.pc = "idle"
  /\ ui.ws.readOnly \/ Len(ui.ws.exercises) > 0
  /\ Len(ui.ws.stored) <= MaxStored
  /\ ui' = [ui EXCEPT !.ws =
       IF ui.ws.workoutSheet = Null \/ ui.ws.readOnly
         THEN [@ EXCEPT !.op = "saveExercises"]
         ELSE [@ EXCEPT !.op = "saveExercises", !.loading = TRUE,
                        !.pc = "delete", !.toast = "none",
                        !.toSave = exercisesToSave(ui.ws.exercises),
                        !.before = ui.ws.stored,
                        !.deleteFailed = FALSE]]
  /\ WsFrame

\* The delete answers; its result is not looked at. With nothing to insert
\* the success toast follows at once, else the insert request is sent.
DeleteExercises(ok) ==
  /\ ui.ws.pc = "delete"
  /\ ui' = [ui EXCEPT !.ws =
       [@ EXCEPT !.stored = IF ok THEN <<>> ELSE @,
                 !.deleteFailed = ~ok,
                 !.pc = IF Len(ui.ws.toSave) > 0 THEN "insert" ELSE "idle",
                 !.loading = Len(ui.ws.toSave) > 0,
                 !.toast = IF Len(ui.ws.toSave) > 0 THEN "none"
                           ELSE "success"]]
  /\ WsFrame

\* The insert of the whole list answers: if (error) throw error, else the
\* success toast; finally setLoading(false).
InsertExercises(ok) ==
  /\ ui.ws.pc = "insert"
  /\ ui' = [ui EXCEPT !.ws =
       [@ EXCEPT !.stored = IF ok THEN @ \o ui.ws.toSave ELSE @,
                 !.pc = "idle", !.loading = FALSE,
                 !.toast = IF ok THEN "success" ELSE "error"]]
  /\ WsFrame

\* The dialog is closed and may be opened again.
WsClose ==
  /\ ui.ws.workoutSheet # Null /\ ui.ws.pc = "idle"
  /\ ui' = [ui EXCEPT !.ws =
              [UiIdle.ws EXCEPT !.sheets = ui.ws.sheets,
                                !.stored = ui.ws.stored]]
  /\ WsFrame

ExerciseNames == {<<Space>>, <<"A">>}
SheetNames == {<<"T">>, <<Space>>}

WorkoutStores ==
  {<<>>, <<[name |-> <<"Z">>, order_index |-> 0]>>}

InitWorkout ==
  /\ now = 0
  /\ profiles = {[id |-> StudentA, role |-> "student"],
                 [id |-> AdminC, role |-> "admin"]}
  /\ plans = PlanIds
  /\ student_plans = <<>>
  /\ check_ins = <<>>
  /\ pendingInsert = [c \in Clients |-> Null]
  /\ gate = GateIdle
  /\ stu = StuInit
  /\ del = Null
  /\ form = Null
  /\ view = Null
  /\ fk = FALSE
  /\ users = {}
  /\ \E stored \in WorkoutStores :
       ui = [UiIdle EXCEPT !.ws.sheets = <<<<"T">>>>,
                           !.ws.stored = stored]

NextWorkout ==
  \/ \E readOnly \in BOOLEAN, ok \in BOOLEAN :
       WorkoutSheetDialog(1, readOnly, ok)
  \/ \E value \in SheetNames : setName(value)
  \/ handleUpdateWorkoutSheet
  \/ \E ok \in BOOLEAN : UpdateSheet(ok)
  \/ addExercise
  \/ \E index \in 1..MaxExercises, value \in ExerciseNames :
       updateExercise(index, value)
  \/ \E index \in 1..MaxExercises : removeExercise(index)
  \/ saveExercises
  \/ \E ok \in BOOLEAN : DeleteExercises(ok)
  \/ \E ok \in BOOLEAN : InsertExercises(ok)
  \/ WsClose

SpecWorkout == InitWorkout /\ [][NextWorkout]_vars

----------------------------------------------------------------------------
(* Claims about the check-in gate, checked under Spec *)

GateCalled == gate.code # <<>>
GateDone == GateCalled /\ gate.pc = "idle"

\* C1: a call with the code generated for a student who has an active row
\* whose end date has not passed succeeds, sends exactly one insert, and the
\* row it appends is stamped no earlier than the call.
C1_EligibleCheckInSucceeds ==
  (GateDone /\ gate.standing = "ok")
    => /\ gate.result = "ok"
       /\ gate.inserts = 1
       /\ gate.stamped
       /\ \E i \in 1..Len(check_ins) :
            generateStudentQR(check_ins[i].student_id) = gate.code

\* C2: a call for a student whose active plan is past its end date fails
\* with 'plan expired', a call for a student with no active row fails with
\* 'no active plan', and neither sends an insert.
C2_IneligibleRejected ==
  /\ (GateDone /\ gate.standing = "expired")
       => (gate.result = "expired" /\ gate.inserts = 0)
  /\ (GateDone /\ gate.standing = "noplan")
       => (gate.result = "noplan" /\ gate.inserts = 0)

\* C3: the code generated for a profile id of the store passes the parser
\* and decodes to that profile id.
C3_RoundTrip ==
  \A p \in profiles :
    (GateCalled /\ gate.code = generateStudentQR(p.id))
      => (gate.result # "invalid" /\ gate.studentId = p.id)

\* C9: a code whose '-'-separated segments are not exactly KGYM, CHECKIN and
\* one more is rejected as invalid whatever the store and the clock hold,
\* with no store lookup made and no insert sent.
C9_Malformed(qrCode) ==
  LET parts == Split(qrCode) IN
  Len(parts) # 3 \/ parts[1] # KGYM \/ parts[2] # CHECKIN

C9_MalformedRejected ==
  (GateCalled /\ C9_Malformed(gate.code))
    => /\ gate.pc = "idle" /\ ~gate.loading
       /\ gate.result = "invalid"
       /\ gate.lookups = 0
       /\ gate.inserts = 0
       /\ pendingInsert["gate"] = Null

C9_Witness ==
  /\ gate.code = KGYM \o <<Dash>> \o <<"O", "U", "T">> \o <<Dash>> \o <<"a">>
  /\ gate.result = "invalid"
  /\ student_plans # <<>>
  /\ now > 0

\* C10: the checks run in the order student, active row, end date, insert
\* and the first failing one is reported: the code of an id that is no
\* student's yields 'student not found', the code of a student with no
\* active row yields 'no active plan', and an insert is sent only when the
\* student was found with an active row that is not expired.
C10_FirstFailingCheck ==
  GateDone =>
    /\ (\E id \in {q.id : q \in profiles} \cup {<<"a", "b", "c">>} :
          /\ gate.code = generateStudentQR(id)
          /\ SelectStudent(id) = {})
         => gate.result = "notfound"
    /\ gate.standing = "noplan" => gate.result = "noplan"
    /\ gate.inserts = 1 => gate.standing = "ok"

----------------------------------------------------------------------------
(* Claims about the status badges, checked under SpecStatus *)

\* The current UTC calendar date.
Today == now \div TicksPerDay

StoredRowsOf(s) == {r \in Range(student_plans) : r.student_id = s}
StoredActiveOf(s) == {r \in StoredRowsOf(s) : r.status = "active"}
NewestRowOf(s) ==
  CHOOSE r \in StoredRowsOf(s) : \A q \in StoredRowsOf(s) : q.id <= r.id

Rendered == view # Null
RenderedActive == Rendered /\ view.row # Null /\ view.row.status = "active"

\* C4 as stated: for an active row the badge is 'expired' iff end_date <
\* today, 'expiring' iff 0 <= days remaining <= 7, and 'active' otherwise.
C4_Claimed(end_date) ==
  IF end_date < Today THEN "expired"
  ELSE IF end_date - Today <= 7 THEN "expiring"
  ELSE "active"

C4_StatusAsClaimed ==
  RenderedActive => view.status = C4_Claimed(view.row.end_date)

\* C4 as amended: for an active row the badge is 'expired' iff end_date <=
\* today (a plan read on its end date is already 'expired'), 'expiring' iff
\* 1 <= days remaining <= 7, and 'active' otherwise, with today the UTC date.
C4_Amended(end_date) ==
  IF end_date <= Today THEN "expired"
  ELSE IF end_date - Today <= 7 THEN "expiring"
  ELSE "active"

C4_StatusByDate ==
  RenderedActive => view.status = C4_Amended(view.row.end_date)

C4_Witness ==
  /\ RenderedActive
  /\ view.screen = "students"
  /\ view.row.end_date = Today
  /\ now % TicksPerDay # 0
  /\ view.status = "expired"

\* C7 as stated: for a student with no active row every screen's badge is
\* 'inactive'.
C7_AllInactive ==
  (Rendered /\ StoredActiveOf(view.student) = {})
    => view.status = "inactive"

\* C7 as amended: for a student with no active row the Students list, the
\* StudentDashboard and the StudentCheckIn screen show 'inactive'; the
\* StudentPlan screen shows the stored status of the most recently created
\* row ('inactive' or 'expired'), and 'inactive' when there is no row.
C7_NoActiveRow ==
  (Rendered /\ StoredActiveOf(view.student) = {})
    => IF view.screen = "plan" /\ StoredRowsOf(view.student) # {}
         THEN view.status = NewestRowOf(view.student).status
         ELSE view.status = "inactive"

C7_Witness ==
  /\ Rendered /\ view.screen = "plan"
  /\ StoredActiveOf(view.student) = {}
  /\ Cardinality(StoredRowsOf(view.student)) = 2
  /\ NewestRowOf(view.student).status = "expired"
  /\ NewestRowOf(view.student).end_date > Today
  /\ view.status = "expired"

\* C8 as stated: when exactly one of a student's rows is active, every
\* screen's badge is the one derived from that row's end date.
C8_AllFromActiveRow ==
  (Rendered /\ Cardinality(StoredActiveOf(view.student)) = 1)
    => \A r \in StoredActiveOf(view.student) :
         view.status = C4_Amended(r.end_date)

\* C8 as amended: when exactly one of a student's rows is active, the
\* Students list, the StudentDashboard and the StudentCheckIn screen derive
\* the badge from that row; the StudentPlan screen derives it from the most
\* recently created row, so it shows that row's stored 'inactive' or
\* 'expired' when a non-active row is newer than the active one.
C8_OneActiveRow ==
  (Rendered /\ Cardinality(StoredActiveOf(view.student)) = 1)
    => \A r \in StoredActiveOf(view.student) :
         IF view.screen = "plan" /\ NewestRowOf(view.student) # r
           THEN view.status = NewestRowOf(view.student).status
           ELSE view.status = C4_Amended(r.end_date)

C8_Witness ==
  /\ Rendered /\ view.screen = "plan"
  /\ Cardinality(StoredActiveOf(view.student)) = 1
  /\ NewestRowOf(view.student).status = "inactive"
  /\ \A r \in StoredActiveOf(view.student) :
       C4_Amended(r.end_date) = "active"
  /\ view.status = "inactive"

----------------------------------------------------------------------------
(* Claims about calculateEndDate, checked under SpecDate *)

\* C5: the computed end date is the start date moved on by the plan's
\* number of calendar months: month (start.month + months) mod 12 with the
\* year rolled over, the same day of the month, and the last day of that
\* month when the day does not exist in it.
C5_Expected(start, months) ==
  LET m0 == start.m - 1 + months
      y1 == start.y + (m0 \div 12)
      m1 == (m0 % 12) + 1
      last == CHOOSE n \in 28..31 :
                /\ n <= DaysInMonth(y1, m1)
                /\ n + 1 > DaysInMonth(y1, m1)
  IN [y |-> y1, m |-> m1, d |-> IF start.d < last THEN start.d ELSE last]

C5_CalendarMonths ==
  (form # Null /\ form.end_date # Null)
    => form.end_date = C5_Expected(form.start_date, form.months)

----------------------------------------------------------------------------
(* Claims about DeletePlanDialog, checked under SpecPlans *)

\* The rows that reference the dialog's plan with status 'active'.
C6_ActiveRefs ==
  {i \in DOMAIN student_plans :
     student_plans[i].plan_id = del.plan.id /\ student_plans[i].status = "active"}

C6_Step ==
  /\ (del.pc = "check" /\ del'.pc # "check" /\ del'.toast # "error") =>
       IF C6_ActiveRefs # {}
         THEN /\ del'.pc = "idle"
              /\ del'.toast = "blocked"
              /\ ~del'.sent
              /\ plans' = plans
              /\ del.plan.id \in plans'
         ELSE /\ del'.pc = "delete"
              /\ del'.sent
  /\ (del.pc = "delete" /\ del'.pc # "delete" /\ del'.toast # "error") =>
       /\ del'.toast = "deleted"
       /\ del.plan.id \notin plans'
  /\ (del.pc # "delete" /\ del'.pc # "delete") => plans' = plans

\* C6: when handleDelete's check finds at least one student_plans row of
\* the plan with status 'active', it sends no delete request and the plan
\* row stays; when it finds none it sends the delete request, and the plan
\* row is gone once the store has carried the request out.  The plans table
\* changes in no other step of the dialog.
C6_DeleteBlockedByActiveRows == [][C6_Step]_vars

\* A plan has been deleted, and a later delete of the other plan was
\* blocked by an active row.
C6_Witness ==
  /\ del.pc = "idle"
  /\ del.toast = "blocked"
  /\ ~del.sent
  /\ del.plan.id \in plans
  /\ plans # PlanIds
  /\ \E i \in DOMAIN student_plans :
       student_plans[i].plan_id = del.plan.id /\ student_plans[i].status = "active"

----------------------------------------------------------------------------
(* Claims about what writes the tables, checked under Spec *)

\* A step of a check-in (either screen, request or answer) or of the clock.
C11_CheckInOrClockStep ==
  \/ gate' # gate
  \/ stu' # stu
  \/ check_ins' # check_ins
  \/ pendingInsert' # pendingInsert
  \/ now' # now

\* C11: no step of a check-in attempt, at the gate or on the student's
\* screen, successful or failed, and no passing of time changes any
\* student_plans row; the rows change only in a step that is a
\* ManageStudentPlanDialog submit.
C11_PlanRowsFrame ==
  [][C11_CheckInOrClockStep => student_plans' = student_plans]_vars

\* A check-in has been recorded, a gate attempt has failed, and an active
\* row is past its end date and still stored as 'active'.
C11_Witness ==
  /\ Len(check_ins) > 0
  /\ gate.pc = "idle" /\ gate.result \notin {"none", "ok"}
  /\ \E i \in DOMAIN student_plans :
       /\ student_plans[i].status = "active"
       /\ PlanExpired(student_plans[i].end_date, now)

----------------------------------------------------------------------------
(* Claims about student passwords, checked under SpecAuth *)

\* The first six digits of a CPF: its digits in order, cut after the sixth.
C12_FirstSixDigits(cpf) ==
  LET idx == {i \in 1..Len(cpf) : cpf[i] \in Digits}
      upTo(i) == Cardinality({j \in idx : j <= i})
      kept == {i \in idx : upTo(i) <= 6}
  IN SelectSeq([i \in 1..Len(cpf) |-> IF i \in kept THEN cpf[i] ELSE "x"],
               LAMBDA c : c # "x")

\* C12: the password AddStudentDialog hands to sign-up is exactly the first
\* six digits of the CPF entered, for every CPF the form accepts.
C12_PasswordIsFirstSixDigits ==
  ui.add.pc = "signup" =>
    ui.add.password = C12_FirstSixDigits(ui.add.cpf)

\* C13: when the student enters, in a login form, the CPF the account was
\* created with, the password the form submits equals the password set at
\* account creation.
C13_SamePasswordBothWays ==
  ui.login.pc = "auth" =>
    \A u \in users :
      ui.login.typed = u.cpf => ui.login.password = u.password

----------------------------------------------------------------------------
(* Claims about students and their rows, checked under SpecStudents *)

\* C14: once DeleteStudentDialog has reported a student deleted, no
\* student_plans row and no check_ins row references the deleted profile.
C14_DeletionCascades ==
  (ui.delS.pc = "idle" /\ ui.delS.toast = "deleted") =>
    /\ \A i \in DOMAIN student_plans :
         student_plans[i].student_id # ui.delS.student.id
    /\ \A i \in DOMAIN check_ins :
         check_ins[i].student_id # ui.delS.student.id

----------------------------------------------------------------------------
(* Claims about the face path, checked under SpecFace *)

C15_Step ==
  /\ (ui.cam.timer # <<>> /\ ui'.cam.timer = <<>>) =>
       /\ gate.pc = "idle"
       /\ gate' = processCheckIn(generateStudentQR(ui.cam.timer))
  /\ (gate.pc # "idle" /\ gate'.pc = "idle" /\ gate.standing # "ok") =>
       check_ins' = check_ins
  /\ (gate.pc = "idle" /\ gate'.pc = "idle") => check_ins' = check_ins

----------------------------------------------------------------------------
(* Claims about the role column, checked under SpecRoles *)

\* C16: no step changes the role of an existing profile: self-edit, the
\* admin's edit of a student, face capture, login and plan assignment all
\* leave every profile's role as it was created.
C16_RoleFixed ==
  [][\A q \in profiles : \A r \in profiles' :
       r.id = q.id => r.role = q.role]_vars

\* The admin has edited their own name and captured a face, a student has
\* been renamed by the admin, the student has logged in and has a plan.
C16_Witness ==
  /\ \E q \in profiles :
       q.role = "admin" /\ q.full_name = "n2" /\ q.face_encoding = "f1"
  /\ \E q \in profiles : q.role = "student" /\ q.full_name = "n2"
  /\ ui.login.toast = "welcome"
  /\ Len(student_plans) > 0

----------------------------------------------------------------------------
(* Claims about the check_ins table, checked under SpecStudents *)

C17_GoneIds == {q.id : q \in profiles} \ {q.id : q \in profiles'}

\* C17: check_ins is append-only apart from deletion: a step leaves the
\* rows as they are, or appends one row after them, or is the answer to
\* CheckInHistoryDialog.confirmDelete and removes the selected row at most,
\* or deletes a profile and removes the rows of that profile at most.  No
\* step changes the student_id or check_in_time of a stored row.
C17_Step ==
  \/ check_ins' = check_ins
  \/ /\ Len(check_ins') = Len(check_ins) + 1
     /\ SubSeq(check_ins', 1, Len(check_ins)) = check_ins
  \/ /\ ui.hist.selected # Null
     /\ check_ins' = SelectSeq(check_ins, LAMBDA r : r # ui.hist.selected)
  \/ /\ C17_GoneIds # {}
     /\ check_ins' =
          SelectSeq(check_ins, LAMBDA r : r.student_id \notin C17_GoneIds)

C17_CheckInsAppendOnly == [][C17_Step]_vars

\* A check-in was recorded, then a student was deleted and a deletion was
\* confirmed in the history dialog, and the recorded row is still stored.
C17_Witness ==
  /\ Len(check_ins) = 1
  /\ ui.delS.toast = "deleted"
  /\ ui.hist.toast = "deleted"
  /\ \E q \in profiles : q.id = check_ins[1].student_id

----------------------------------------------------------------------------
(* Claims about the loading flags and notifications, checked under SpecLive *)

\* Every operation that set its loading flag resets it.
C18_Finishes ==
  /\ gate.loading ~> ~gate.loading
  /\ stu.loading ~> ~stu.loading
  /\ del.loading ~> ~del.loading
  /\ ui.mp.loading ~> ~ui.mp.loading
  /\ ui.add.loading ~> ~ui.add.loading
  /\ ui.delS.loading ~> ~ui.delS.loading
  /\ ui.login.loading ~> ~ui.login.loading

\* The step that ends an operation raises a notification, and the
\* notification of success only when every request of the operation was
\* carried out.
C18_NotifiedStep ==
  /\ gate.loading /\ ~gate'.loading =>
       /\ gate'.result # "none"
       /\ gate'.result = "ok" => Len(check_ins') = Len(check_ins) + 1
  /\ stu.loading /\ ~stu'.loading =>
       /\ stu'.result # "none"
       /\ stu'.result = "ok" => Len(check_ins') = Len(check_ins) + 1
  /\ del.loading /\ ~del'.loading =>
       /\ del'.toast # "none"
       /\ del'.toast = "deleted" => del.plan.id \notin plans'
  /\ ui.mp.loading /\ ~ui'.mp.loading =>
       /\ ui'.mp.toast # "none"
       /\ student_plans' = student_plans /\ ui.mp.req.currentPlan = Null
            => ui'.mp.toast = "error"
  /\ ui.add.loading /\ ~ui'.add.loading =>
       /\ ui'.add.toast # "none"
       /\ ui'.add.toast = "added" =>
            /\ NewStudent \in profiles'
            /\ \E u \in users' : u.id = NewUserId
  /\ ui.delS.loading /\ ~ui'.delS.loading =>
       /\ ui'.delS.toast # "none"
       /\ ui'.delS.toast = "deleted" =>
            /\ \A q \in profiles' : q.id # ui.delS.student.id
            /\ \A u \in users' : u.id # ui.delS.student.user_id
  /\ ui.login.loading /\ ~ui'.login.loading =>
       /\ ui'.login.toast # "none"
       /\ ui'.login.toast = "welcome" => ui'.login.profile # Null

\* An operation whose loading flag is down has no request in flight: none
\* is sent again without the user.
C18_NoRetry ==
  /\ ~gate.loading => gate.pc = "idle" /\ pendingInsert["gate"] = Null
  /\ ~stu.loading => pendingInsert["stu"] = Null
  /\ ~del.loading => del.pc = "idle"
  /\ ~ui.mp.loading => ui.mp.req = Null
  /\ ~ui.add.loading => ui.add.pc = "idle"
  /\ ~ui.delS.loading => ui.delS.pc = "idle"
  /\ ~ui.login.loading => ui.login.pc = "idle"

\* The button that starts the face check-in:
\* disabled={isScanning || status === 'error'}.
C18_ScanDisabled == ui.cam.isScanning \/ ui.cam.status = "error"

\* C18: every operation that was started finishes with its loading flag
\* reset, the step that finishes it raises a notification (of success only
\* if nothing failed), nothing is sent again without the user, and no
\* control that starts an operation stays disabled for good.
C18_OperationsFinishNotified ==
  /\ C18_Finishes
  /\ [][C18_NotifiedStep]_vars
  /\ []C18_NoRetry
  /\ []<>(~C18_ScanDisabled)

----------------------------------------------------------------------------
(* Claims about the end date of the form, checked under SpecEndDate *)

\* Either handler run again with the plan and the start date the form has.
C19_Retrigger ==
  /\ form.months # 0
  /\ form.start_date # Null
  /\ \/ handlePlanChange(form.months)
     \/ handleStartDateChange(form.start_date)

----------------------------------------------------------------------------
(* Claims about the active rows of a student, checked under SpecAssign *)

\* C20: whatever the admins submit through ManageStudentPlanDialog, in
\* whatever order, each student has at most one student_plans row with
\* status 'active'.
C20_AtMostOneActive ==
  \A s \in {StudentA, StudentB} : Cardinality(StoredActiveOf(s)) <= 1

----------------------------------------------------------------------------
(* Claims about the auth context, checked under SpecSession *)

\* C21: the children of ProtectedRoute are rendered only for a context
\* whose profile has role 'admin': never for a student, nor while the
\* profile is absent or not yet loaded.
C21_AdminAreaOnlyForAdmin ==
  ProtectedRoute(ui.ctx) = "children"
    => ui.ctx.profile # Null /\ ui.ctx.profile.role = "admin"

\* The role a login form asks of the profile.
C26_RequiredRole(loginForm) ==
  IF loginForm = "Teacher" THEN "admin" ELSE "student"

\* C26: a login handler changes the user and profile of the context only
\* when it ends with success, and then to an account that has the password
\* entered and to the profile of that account, which has the role the form
\* asks for; a login that fails leaves both as they were.
C26_Step ==
  (ui.login.pc # "idle"
     /\ (ui'.ctx.user # ui.ctx.user \/ ui'.ctx.profile # ui.ctx.profile))
  => /\ ui'.login.toast = "welcome"
     /\ ui'.ctx.user # Null /\ ui'.ctx.profile # Null
     /\ \E u \in users : /\ u.id = ui'.ctx.user.id
                         /\ u.password = ui.login.password
     /\ ui'.ctx.profile \in profiles
     /\ ui'.ctx.profile.user_id = ui'.ctx.user.id
     /\ ui'.ctx.profile.role = C26_RequiredRole(ui.login.form)

C26_ContextSetOnlyOnSuccess == [][C26_Step]_vars

\* With no stored session, the teacher form has signed the admin in.
C26_Witness ==
  /\ ui.ctx.session = Null
  /\ ui.login.form = "Teacher"
  /\ ui.login.toast = "welcome"
  /\ ui.ctx.user = [id |-> "u0"]
  /\ ui.ctx.profile # Null /\ ui.ctx.profile.role = "admin"

----------------------------------------------------------------------------
(* Claims about concurrent tabs, checked under SpecPlans *)

\* C22: a step that deletes a plan finds no student_plans row with status
\* 'active' referencing it, whatever other tabs committed since the check
\* of handleDelete.
C22_Step ==
  \A p \in plans \ plans' : ActiveStudentPlans(p) = {}

C22_NoDeleteOfReferencedPlan == [][C22_Step]_vars

----------------------------------------------------------------------------
(* Claims about the two check-in screens together, checked under Spec *)

\* The plan checks of the gate's processCheckIn for a student it found: an
\* active row, whose end date has not passed.
GateAdmits(studentId, today) ==
  \E activePlan \in FindActive(RowsOf(studentId)) :
    ~PlanExpired(activePlan.end_date, today)

\* C23: the student's own screen admits exactly the students the gate
\* admits: the "Fazer Check-in" button of a screen that has just fetched the
\* student's plan is enabled exactly when the gate's plan checks pass, the
\* last seven days before the end date included.
C23_SameAdmissionAsGate ==
  canCheckIn(SingleActive(StudentA), now) <=> GateAdmits(StudentA, now)


----------------------------------------------------------------------------
(* Claims relating the gate to the status badge, checked under SpecStatus *)

\* C24: for the active row of a student, the gate's expiry check rejects
\* ('plan expired') exactly when the status resolver of the students list
\* labels the plan 'expired'.
C24_GateExpiredIffLabelExpired ==
  \A s \in StatusStudents :
    \A activePlan \in FindActive(RowsOf(s)) :
      PlanExpired(activePlan.end_date, now)
        <=> Students_getStudentStatus(RowsOf(s), activePlan, now) = "expired"


----------------------------------------------------------------------------
(* Claims about the workout sheet dialog, checked under SpecWorkout *)

\* saveExercises ran to its end in an editable dialog and nothing was called
\* since.
SaveFinished ==
  /\ ui.ws.op = "saveExercises" /\ ui.ws.pc = "idle"
  /\ ui.ws.workoutSheet # Null /\ ~ui.ws.readOnly

\* C25: saveExercises is all-or-nothing: when its delete or its insert
\* failed, the stored exercises of the sheet are the ones stored when it was
\* called.
C25_SaveAllOrNothing ==
  (SaveFinished /\ (ui.ws.deleteFailed \/ ui.ws.toast = "error"))
    => ui.ws.stored = ui.ws.before

C28_Named(exercises) ==
  SelectSeq(exercises,
            LAMBDA ex : \E i \in 1..Len(ex.name) : ex.name[i] # Space)

\* C28: after a save that ended with the success toast, the stored exercises
\* of the sheet are exactly the on-screen exercises with a non-blank name,
\* in on-screen order, with order_index 0, 1, ..., k-1.
C28_StoredIsScreenList ==
  (SaveFinished /\ ui.ws.toast = "success")
    => LET named == C28_Named(ui.ws.exercises) IN
       /\ Len(ui.ws.stored) = Len(named)
       /\ \A i \in 1..Len(named) :
            /\ ui.ws.stored[i].name = named[i].name
            /\ ui.ws.stored[i].order_index = i - 1

MutatingOperations ==
  {"handleUpdateWorkoutSheet", "addExercise", "updateExercise",
   "removeExercise", "saveExercises"}

\* C29: in readOnly mode a call of handleUpdateWorkoutSheet, addExercise,
\* updateExercise, removeExercise or saveExercises changes neither the
\* dialog's state nor the store and sends no request.
C29_Step ==
  (ui.ws.readOnly /\ ui'.ws.op \in MutatingOperations)
    => /\ ui'.ws = [ui.ws EXCEPT !.op = ui'.ws.op]
       /\ ui'.ws.pc = "idle"

C29_ReadOnlyIsNoOp == [][C29_Step]_vars

C29_Witness ==
  /\ ui.ws.readOnly /\ ui.ws.workoutSheet # Null
  /\ ui.ws.op = "saveExercises"
  /\ ui.ws.exercises # <<>> /\ ui.ws.exercises = ui.ws.stored


----------------------------------------------------------------------------
(* Claims about the face scanner, checked under SpecFace *)

\* C27: the face scanner is always left in a state from which a new scan
\* can start: between attempts isScanning is false, the "Escanear Face"
\* button (disabled={isScanning || status === 'error'}) is enabled, and the
\* status is not 'scanning'.
C27_ScanCanStartAgain ==
  /\ ~ui.cam.isScanning
  /\ ui.cam.status # "error"
  /\ ui.cam.status # "scanning"


----------------------------------------------------------------------------
(* Claims about the password change, checked under SpecPassword *)

\* C30: onUpdatePassword sends the password update only after the sign-in
\* with the entered current password succeeded; when that verification
\* fails no update is sent and the stored password is unchanged; and the
\* stored password changes only by an update that was sent.
C30_Step ==
  /\ (ui'.pw.sent /\ ~ui.pw.sent)
       => (ui.pw.pc = "verify" /\ CurrentPasswordOk /\ ui'.pw.verified)
  /\ (ui.pw.pc = "verify" /\ ui'.pw.pc = "idle")
       => (users' = users /\ ~ui'.pw.sent /\ ui'.pw.toast = "error")
  /\ users' # users => (ui.pw.sent /\ ui.pw.verified)

C30_UpdateOnlyAfterVerification == [][C30_Step]_vars

C30_Witness ==
  /\ ui.pw.pc = "idle" /\ ui.pw.toast = "success" /\ ui.pw.verified
  /\ ui.pw.data.newPassword # ui.pw.data.currentPassword
  /\ \E u \in users : /\ u.id = ui.ctx.user.id
                      /\ u.password = ui.pw.data.newPassword


====
